---------------------------- MODULE Spec2Model ----------------------------
(***************************************************************************)
(* Model of the incremental, evidence-gated extraction pipeline of          *)
(* rfp_assist:                                                              *)
(*   - app/utils/process_entity.py : text normalisers and                   *)
(*     filter_with_prev_backup (the merge engine)                           *)
(*   - app/utils/llm.py            : invoke_with_retries (retry controller) *)
(*   - app/services/extractor.py   : extract_entities_llm (chunk loop)      *)
(*   - app/utils/process_json.py   : ensure_defaults, validation gate       *)
(*                                                                          *)
(* Encoding of Python values.                                               *)
(*   str   : a sequence of one-character strings, <<"A","c","m","e">>       *)
(*   None  : the one-element sequence None == <<"None">> ("None" is not a   *)
(*           character, so None differs from every str)                     *)
(*   int   : <<"int", d1, .., dn>>, the tag "int" followed by the digits    *)
(*   dict  : a function whose DOMAIN is the set of keys that are present    *)
(*   list  : a sequence (a list field holding None is an absent key)       *)
(***************************************************************************)
EXTENDS Integers, Sequences, FiniteSets, TLC

VARIABLES
    \* --- merge engine (specification Spec) ---
    start,      \* the state the sequence of merges started from
    state,      \* the trusted state (prev_clean of the next merge)
    before,     \* the state the last merge started from
    cand,       \* payload of the last merge
    text,       \* chunk_text of the last merge
    merges,     \* number of merges done
    \* --- retry controller (specification SpecRetry) ---
    rpc,        \* position in invoke_with_retries
    attempt,    \* loop variable `attempt`
    retries,    \* parameter `retries`
    user_base,  \* parameter `user_base`
    last_err,   \* local `last_err`
    calls,      \* oracle outputs received so far, one per llm.call
    sys_msgs,   \* the system message of every llm.call
    user_msgs,  \* the user message of every llm.call
    sleeps,     \* arguments of every time.sleep
    ret,        \* the returned pair
    uuids,      \* number of identifiers uuid4() has produced
    \* --- chunk loop (specification SpecSession) ---
    spc,        \* position in extract_entities_llm
    doc,        \* index in pdfs of the document the loop is in
    taken,      \* number of chunks taken from pdfs so far
    prev_state, \* local `prev_state`
    pre_merge,  \* prev_state when the current chunk was taken
    chunk_text, \* local `text` of the current chunk
    cleaned,    \* what filter_with_prev_backup returned for the current chunk
    validated,  \* the payload given to validate_extraction_json
    outcome,    \* how the body of the loop ended for the last chunk
    results,    \* local `results`
    oracle_calls, \* number of llm.call per chunk, in chunk order
    heap,       \* the dict objects of the loop, and which of them is which
    \* --- sanitizer (specification SpecSanitize) ---
    raw,        \* the dict given to ensure_defaults or sanitize_llm_extraction
    filled,     \* what ensure_defaults returned for it
    sane        \* what sanitize_llm_extraction returned for it

mvars == <<start, state, before, cand, text, merges>>
rvars == <<rpc, attempt, retries, user_base, last_err, calls, sys_msgs,
           user_msgs, sleeps, ret, uuids>>
svars == <<spc, doc, taken, prev_state, pre_merge, chunk_text, cleaned,
           validated, outcome, results, oracle_calls, heap>>
pvars == <<raw, filled, sane>>
vars  == <<mvars, rvars, svars, pvars>>

-----------------------------------------------------------------------------
(* Characters and strings                                                  *)

None == <<"None">>
EmptyStr == <<>>

UpperCase == <<"A","B","C","D","E","F","G","H","I","J","K","L","M",
               "N","O","P","Q","R","S","T","U","V","W","X","Y","Z">>
LowerCase == <<"a","b","c","d","e","f","g","h","i","j","k","l","m",
               "n","o","p","q","r","s","t","u","v","w","x","y","z">>
Digits    == <<"0","1","2","3","4","5","6","7","8","9">>

UpperSet == {UpperCase[i] : i \in 1..26}
LowerSet == {LowerCase[i] : i \in 1..26}
DigitSet == {Digits[i] : i \in 1..10}

IsLetter(c) == c \in UpperSet \cup LowerSet
IsDigit(c)  == c \in DigitSet
\* \s of Python's re for the characters of the model
IsSpace(c)  == c \in {" ", "\t", "\n"}
\* \w of Python's re
IsWord(c)   == IsLetter(c) \/ IsDigit(c) \/ c = "_"

\* str.lower() on one character
LowerChar(c) ==
    IF c \in UpperSet
    THEN LowerCase[CHOOSE i \in 1..26 : UpperCase[i] = c]
    ELSE c

\* str.lower()
Lower(s) == [i \in 1..Len(s) |-> LowerChar(s[i])]

\* the value of a decimal digit
DigitVal(c) == (CHOOSE i \in 1..10 : Digits[i] = c) - 1

\* int(s) for a str of digits
RECURSIVE ToInt(_)
ToInt(s) == IF s = <<>> THEN 0
            ELSE 10 * ToInt(SubSeq(s, 1, Len(s) - 1)) + DigitVal(s[Len(s)])

\* the subsequence of s of the elements at the indexes where Keep holds
RECURSIVE Filter(_, _, _)
Filter(s, keep, i) ==
    IF i > Len(s) THEN <<>>
    ELSE (IF i \in keep THEN <<s[i]>> ELSE <<>>) \o Filter(s, keep, i + 1)

\* str.strip()
Strip(s) ==
    LET nonws == {i \in 1..Len(s) : ~IsSpace(s[i])}
    IN  IF nonws = {} THEN <<>>
        ELSE SubSeq(s, CHOOSE i \in nonws : \A j \in nonws : i <= j,
                       CHOOSE i \in nonws : \A j \in nonws : i >= j)

\* WS.sub(" ", s): every maximal run of whitespace becomes one space
WsSub(s) ==
    LET keep == {i \in 1..Len(s) : ~(IsSpace(s[i]) /\ i > 1 /\ IsSpace(s[i-1]))}
        one  == [i \in 1..Len(s) |-> IF IsSpace(s[i]) THEN " " ELSE s[i]]
    IN  Filter(one, keep, 1)

\* needle in haystack (Python's substring test on str)
IsSubstring(n, h) ==
    \E i \in 0..(Len(h) - Len(n)) : SubSeq(h, i + 1, i + Len(n)) = n

\* re.sub(r"\D", "", s)
DigitsOnly(s) == Filter(s, {i \in 1..Len(s) : IsDigit(s[i])}, 1)

\* a Python value that is a str (not None, not an int)
IsStr(v) == v # None /\ (v = <<>> \/ v[1] # "int")

\* str(v)
Str(v) == IF v = None THEN <<"N","o","n","e">>
          ELSE IF IsStr(v) THEN v ELSE Tail(v)

\* truthiness of a scalar Python value (None, "", 0 are falsy)
Truthy(v) == v # None /\ v # <<>> /\ v # <<"int", "0">>

\* process_entity._norm
_norm(s) == Lower(Strip(WsSub(s)))

\* process_entity._contains_literal, with the haystack already normalised
ContainsNorm(hay_norm, needle) ==
    needle # <<>> /\ IsSubstring(_norm(needle), hay_norm)

\* process_entity._contains_literal
_contains_literal(haystack, needle) == ContainsNorm(_norm(haystack), needle)

-----------------------------------------------------------------------------
(* Regular expressions of app/domain/common.py, as matchers.  MatchEnd(t,i) *)
(* operators give the index of the last character of the match that starts  *)
(* at index i, or 0 when the pattern does not match there.                  *)

\* the index of the last character of the maximal run of characters of the
\* class Cls that starts at i (i - 1 when there is none)
RunEnd(t, i, Cls(_)) ==
    CHOOSE j \in (i - 1)..Len(t) :
        /\ \A k \in i..j : Cls(t[k])
        /\ (j = Len(t) \/ ~Cls(t[j + 1]))

\* re.finditer / re.findall: leftmost matches, left to right, not overlapping;
\* ends[i] is the end of the match starting at i, or 0
RECURSIVE FindAll(_, _, _)
FindAll(t, ends, pos) ==
    IF pos > Len(t) THEN <<>>
    ELSE IF ends[pos] > 0
         THEN <<SubSeq(t, pos, ends[pos])>> \o FindAll(t, ends, ends[pos] + 1)
         ELSE FindAll(t, ends, pos + 1)

Range(s) == {s[i] : i \in 1..Len(s)}

\* [A-Z0-9._%+-] with re.I
IsEmailLocal(c)  == IsLetter(c) \/ IsDigit(c) \/ c \in {".", "_", "%", "+", "-"}
\* [A-Z0-9.-] with re.I
IsEmailDomain(c) == IsLetter(c) \/ IsDigit(c) \/ c \in {".", "-"}

\* EMAIL_RE = [A-Z0-9._%+-]+@[A-Z0-9.-]+\.[A-Z]{2,}  (re.I)
EmailMatchEnd(t, i) ==
    LET le == RunEnd(t, i, IsEmailLocal)
    IN  IF le < i \/ le + 1 > Len(t) THEN 0
        ELSE IF t[le + 1] # "@" THEN 0
        ELSE LET de   == RunEnd(t, le + 2, IsEmailDomain)
                 \* the dot of "\.[A-Z]{2,}": the greedy domain gives back
                 \* characters until a dot followed by two letters is found
                 dots == {p \in (le + 3)..(de - 2) :
                             t[p] = "." /\ IsLetter(t[p + 1]) /\ IsLetter(t[p + 2])}
             IN  IF dots = {} THEN 0
                 ELSE RunEnd(t, 1 + (CHOOSE p \in dots : \A q \in dots : q <= p),
                             IsLetter)

\* EMAIL_RE.match(s) is not None (a match at the start of s)
EmailReMatch(s) == Len(s) > 0 /\ EmailMatchEnd(s, 1) > 0

\* process_entity._emails_in_text
_emails_in_text(t) ==
    {Lower(m) : m \in Range(FindAll(t, [i \in 1..Len(t) |-> EmailMatchEnd(t, i)], 1))}

\* [\d\-\s().]
IsPhoneMid(c) == IsDigit(c) \/ IsSpace(c) \/ c \in {"-", "(", ")", "."}

\* PHONE_RE = (?:\+?\d[\d\-\s().]{6,}\d)
PhoneMatchEnd(t, i) ==
    LET p == IF t[i] = "+" THEN i + 1 ELSE i
    IN  IF p > Len(t) THEN 0
        ELSE IF ~IsDigit(t[p]) THEN 0
        ELSE LET re   == RunEnd(t, p + 1, IsPhoneMid)
                 lasts == {e \in (p + 7)..re : IsDigit(t[e])}
             IN  IF lasts = {} THEN 0
                 ELSE CHOOSE e \in lasts : \A f \in lasts : f <= e

\* process_entity._phones_in_text
_phones_in_text(t) ==
    {DigitsOnly(m) : m \in Range(FindAll(t, [i \in 1..Len(t) |-> PhoneMatchEnd(t, i)], 1))}

\* \b between positions i-1 and i of t
WordBoundary(t, i) ==
    LET l == i > 1 /\ i - 1 <= Len(t) /\ IsWord(t[i - 1])
        r == i >= 1 /\ i <= Len(t) /\ IsWord(t[i])
    IN  l # r

AllDigits(t, i, j) == j <= Len(t) /\ \A k \in i..j : IsDigit(t[k])
IsDateSep(c) == c \in {".", "-", "/"}

\* lengths, in the regex's order of preference, of the matches of
\* (?:0?[1-9]|[12]\d|3[01]) at i
DayLens(t, i) ==
    (IF i + 1 <= Len(t) /\ t[i] = "0" /\ t[i+1] \in DigitSet \ {"0"} THEN <<2>>
     ELSE IF i <= Len(t) /\ t[i] \in DigitSet \ {"0"} THEN <<1>> ELSE <<>>)
    \o (IF i + 1 <= Len(t) /\ t[i] \in {"1", "2"} /\ IsDigit(t[i+1]) THEN <<2>> ELSE <<>>)
    \o (IF i + 1 <= Len(t) /\ t[i] = "3" /\ t[i+1] \in {"0", "1"} THEN <<2>> ELSE <<>>)

\* the same for (?:0?[1-9]|1[0-2])
MonthLens(t, i) ==
    (IF i + 1 <= Len(t) /\ t[i] = "0" /\ t[i+1] \in DigitSet \ {"0"} THEN <<2>>
     ELSE IF i <= Len(t) /\ t[i] \in DigitSet \ {"0"} THEN <<1>> ELSE <<>>)
    \o (IF i + 1 <= Len(t) /\ t[i] = "1" /\ t[i+1] \in {"0", "1", "2"} THEN <<2>> ELSE <<>>)

\* ISO alternative: \d{4}-(?:0[1-9]|1[0-2])-(?:0[1-9]|[12]\d|3[01]) then \b
IsoDateEnd(t, i) ==
    IF /\ i + 9 <= Len(t)
       /\ AllDigits(t, i, i + 3) /\ t[i+4] = "-"
       /\ \/ (t[i+5] = "0" /\ t[i+6] \in DigitSet \ {"0"})
          \/ (t[i+5] = "1" /\ t[i+6] \in {"0", "1", "2"})
       /\ t[i+7] = "-"
       /\ \/ (t[i+8] = "0" /\ t[i+9] \in DigitSet \ {"0"})
          \/ (t[i+8] \in {"1", "2"} /\ IsDigit(t[i+9]))
          \/ (t[i+8] = "3" /\ t[i+9] \in {"0", "1"})
       /\ WordBoundary(t, i + 10)
    THEN i + 9 ELSE 0

\* numeric alternative A sep B sep (\d{4}|\d{2}) then \b, where the lengths
\* of A and B come from ALens and BLens; the first path that matches, in the
\* order in which a backtracking matcher tries them
NumDateEnd(t, i, ALens(_, _), BLens(_, _)) ==
    LET as    == ALens(t, i)
        paths == {<<a, b, y>> \in (1..Len(as)) \X (1..2) \X (1..2) :
                    LET sa == i + as[a]
                        bs == BLens(t, sa + 1)
                    IN  /\ sa <= Len(t) /\ IsDateSep(t[sa])
                        /\ b <= Len(bs)
                        /\ LET sb == sa + 1 + bs[b]
                               yl == IF y = 1 THEN 4 ELSE 2
                           IN  /\ sb <= Len(t) /\ IsDateSep(t[sb])
                               /\ AllDigits(t, sb + 1, sb + yl)
                               /\ WordBoundary(t, sb + yl + 1)}
        rank(p) == 100 * p[1] + 10 * p[2] + p[3]
    IN  IF paths = {} THEN 0
        ELSE LET p  == CHOOSE q \in paths : \A r \in paths : rank(q) <= rank(r)
                 sa == i + as[p[1]]
                 sb == sa + 1 + BLens(t, sa + 1)[p[2]]
             IN  sb + (IF p[3] = 1 THEN 4 ELSE 2)

\* _DATE_REGEX at i.  The month-name alternatives of the pattern are not
\* modelled: no chunk text of the model holds a month name next to a number.
DateMatchEnd(t, i) ==
    IF ~(IsDigit(t[i]) /\ WordBoundary(t, i)) THEN 0
    ELSE IF IsoDateEnd(t, i) > 0 THEN IsoDateEnd(t, i)
    ELSE IF NumDateEnd(t, i, DayLens, MonthLens) > 0
         THEN NumDateEnd(t, i, DayLens, MonthLens)
    ELSE NumDateEnd(t, i, MonthLens, DayLens)

\* _DATE_REGEX.findall(t)
DateFindAll(t) == FindAll(t, [i \in 1..Len(t) |-> DateMatchEnd(t, i)], 1)

\* process_entity.contains_date
contains_date(t) == \E i \in 1..Len(t) : DateMatchEnd(t, i) > 0

-----------------------------------------------------------------------------
(* Dates and addresses                                                      *)

NoDate == <<>>

\* days of month m of year y (datetime's validity check)
DaysIn(y, m) ==
    IF m \in {4, 6, 9, 11} THEN 30
    ELSE IF m = 2
         THEN (IF (y % 4 = 0 /\ y % 100 # 0) \/ y % 400 = 0 THEN 29 ELSE 28)
    ELSE 31

\* dateutil.parser.parse(s, dayfirst=True) for a str of three numbers joined
\* by "-", "/" or "." (the shapes the numeric alternatives of _DATE_REGEX
\* match): <<year, month, day>>, or NoDate where parse raises.  A number of
\* more than two digits is taken as the year; the other two are resolved day
\* first.  Other strings are outside the model and give NoDate.
ParseDate(s) ==
    LET seps == {i \in 1..Len(s) : IsDateSep(s[i])}
    IN  IF ~IsStr(s) \/ Cardinality(seps) # 2 THEN NoDate
        ELSE
        LET p1 == CHOOSE i \in seps : \A j \in seps : i <= j
            p2 == CHOOSE i \in seps : \A j \in seps : i >= j
            tk == <<SubSeq(s, 1, p1 - 1), SubSeq(s, p1 + 1, p2 - 1),
                    SubSeq(s, p2 + 1, Len(s))>>
            long == {i \in 1..3 : Len(tk[i]) > 2}
        IN  IF \E i \in 1..3 : tk[i] = <<>> \/ ~AllDigits(tk[i], 1, Len(tk[i]))
            THEN NoDate
            ELSE IF Cardinality(long) # 1 THEN NoDate
            ELSE
            LET n   == [i \in 1..3 |-> ToInt(tk[i])]
                ymd == IF n[1] > 31 \/ long = {1}
                       THEN (IF n[3] <= 12 THEN <<n[1], n[3], n[2]>>
                                           ELSE <<n[1], n[2], n[3]>>)
                       ELSE IF n[1] > 12 \/ n[2] <= 12
                            THEN <<n[3], n[2], n[1]>>
                            ELSE <<n[3], n[1], n[2]>>
            IN  IF /\ ymd[1] \in 1..9999 /\ ymd[2] \in 1..12
                   /\ ymd[3] \in 1..DaysIn(ymd[1], ymd[2])
                THEN ymd ELSE NoDate

\* the dates _date_present_in_text finds in the text, parsed
DatesInText(t) ==
    {ParseDate(m) : m \in Range(DateFindAll(t))} \ {NoDate}

\* email.utils.parseaddr(s)[1] for "addr" and "Name <addr>"; strings holding
\* whitespace or commas outside such a name part are outside the model
ParseAddr(s) ==
    LET lt == {i \in 1..Len(s) : s[i] = "<"}
        gt == {i \in 1..Len(s) : s[i] = ">"}
    IN  IF lt # {} /\ gt # {}
        THEN LET i == CHOOSE a \in lt : \A b \in lt : a <= b
                 j == CHOOSE a \in gt : \A b \in gt : a >= b
             IN  IF i < j THEN SubSeq(s, i + 1, j - 1) ELSE s
        ELSE s

\* dict.get(k), None when the key is absent
Get(d, k) == IF k \in DOMAIN d THEN d[k] ELSE None

\* d[k] = v on a copy of d
Put(d, k, v) == [x \in DOMAIN d \cup {k} |-> IF x = k THEN v ELSE d[x]]

\* Python's `v or ""` for an optional str
OrEmpty(v) == IF Truthy(v) THEN v ELSE <<>>

\* a variant of _email_from_any: the address keeps its letter case
EmailFromAnyKeepCase(s) == ParseAddr(Strip(OrEmpty(s)))
\* process_entity._email_from_any
_email_from_any(s) == Lower(ParseAddr(Strip(OrEmpty(s))))

\* process_entity._canon_contact_key
_canon_contact_key(c) ==
    LET email == _email_from_any(OrEmpty(Get(c, "email")))
        name  == Lower(Strip(OrEmpty(Get(c, "name"))))
        phone == DigitsOnly(OrEmpty(Get(c, "phone")))
    IN  IF email # <<>> THEN <<"e", ":">> \o email
        ELSE <<"n", "p", ":">> \o name \o <<"|">> \o phone

\* what filter_with_prev_backup reads of the chunk text
TextFacts(t) ==
    [norm   |-> _norm(t),
     emails |-> _emails_in_text(t),
     phones |-> _phones_in_text(t),
     dates  |-> DatesInText(t)]

\* process_entity._date_present_in_text, given the parsed dates of the text
DatePresent(date_str, dates) ==
    ParseDate(date_str) # NoDate /\ ParseDate(date_str) \in dates

\* process_entity._date_present_in_text
_date_present_in_text(date_str, t) == DatePresent(date_str, DatesInText(t))

-----------------------------------------------------------------------------
(* The merge engine: process_entity.filter_with_prev_backup                 *)

DOC_RFP == <<"R","F","P">>
DOC_RFI == <<"R","F","I">>
DOC_RFQ == <<"R","F","Q">>
DOC_SOURCES_SOUGHT == <<"S","o","u","r","c","e","s"," ","S","o","u","g","h","t">>
DOC_OTHER == <<"O","t","h","e","r">>

\* the dict `tokens` of filter_with_prev_backup: tokens.get(dt_new, [])
TypeTokens(dt) ==
    IF dt = DOC_RFP THEN
        {<<"r","f","p">>,
         <<"r","e","q","u","e","s","t"," ","f","o","r"," ",
           "p","r","o","p","o","s","a","l">>}
    ELSE IF dt = DOC_RFI THEN
        {<<"r","f","i">>,
         <<"r","e","q","u","e","s","t"," ","f","o","r"," ",
           "i","n","f","o","r","m","a","t","i","o","n">>}
    ELSE IF dt = DOC_RFQ THEN
        {<<"r","f","q">>,
         <<"r","e","q","u","e","s","t"," ","f","o","r"," ",
           "q","u","o","t","a","t","i","o","n">>,
         <<"r","e","q","u","e","s","t"," ","f","o","r"," ","q","u","o","t","e">>}
    ELSE IF dt = DOC_SOURCES_SOUGHT THEN
        {<<"s","o","u","r","c","e","s"," ","s","o","u","g","h","t">>}
    ELSE {}

scalar_fields ==
    <<"document_title", "issue_date", "client_organization", "client_industry",
      "project_scope", "contract_term", "submission_method", "pricing_structure">>

\* a variant of MergeDocumentId: the candidate's identifier always wins
MergeDocumentIdOverwrite(payload, merged) ==
    IF "document_id" \in DOMAIN payload
    THEN Put(merged, "document_id", payload["document_id"])
    ELSE merged

\* process_entity.py:290-292
MergeDocumentId(payload, merged) ==
    IF "document_id" \in DOMAIN payload /\ "document_id" \notin DOMAIN merged
    THEN Put(merged, "document_id", payload["document_id"])
    ELSE merged

\* process_entity.py:305: the evidence test of a candidate document_type
TypeEvidenced(dt_new, text_norm) ==
    \/ \E tok \in TypeTokens(dt_new) : IsSubstring(tok, text_norm)
    \/ /\ Lower(dt_new) = Lower(DOC_OTHER)
       /\ IsSubstring(Lower(DOC_OTHER), text_norm)

\* process_entity.py:294-309.  A truthy candidate that is not a str makes
\* dt_new.lower() raise (MergeRaises); this operator is used only otherwise.
MergeDocumentType(payload, merged, text_norm) ==
    LET dt_prev == Get(merged, "document_type")
        dt_new  == Get(payload, "document_type")
    IN  IF Truthy(dt_new) /\ dt_new # dt_prev /\ TypeEvidenced(dt_new, text_norm)
        THEN Put(merged, "document_type", dt_new)
        ELSE merged

\* a variant of ScalarEvidenced: only issue_date is checked against the text
ScalarEvidencedDateOnly(f, cand_val, facts) ==
    IF f = "issue_date" THEN DatePresent(cand_val, facts.dates) ELSE TRUE

\* process_entity.py:321: the evidence test of a candidate scalar
ScalarEvidenced(f, cand_val, facts) ==
    IF f = "issue_date" THEN DatePresent(cand_val, facts.dates)
    ELSE ContainsNorm(facts.norm, Str(cand_val))

\* a variant of MergeScalar: a value the state holds is never replaced
MergeScalarKeepFirst(payload, merged, f, facts) ==
    LET prev_val == Get(merged, f)
        cand_val == Get(payload, f)
    IN  IF cand_val = None \/ cand_val = <<>> \/ Truthy(prev_val) THEN merged
        ELSE IF ScalarEvidenced(f, cand_val, facts) THEN Put(merged, f, cand_val)
        ELSE merged

\* process_entity.py:317-326: one iteration of the loop over scalar_fields
MergeScalar(payload, merged, f, facts) ==
    LET prev_val == Get(merged, f)
        cand_val == Get(payload, f)
    IN  IF cand_val = None \/ cand_val = <<>> \/ cand_val = prev_val THEN merged
        ELSE IF ScalarEvidenced(f, cand_val, facts) THEN Put(merged, f, cand_val)
        ELSE merged

\* process_entity.py:316-326
RECURSIVE MergeScalars(_, _, _, _)
MergeScalars(payload, merged, i, facts) ==
    IF i > Len(scalar_fields) THEN merged
    ELSE MergeScalars(payload,
                      MergeScalar(payload, merged, scalar_fields[i], facts),
                      i + 1, facts)

\* Python's `d.get(k) or []` for a list field.  A list field that is None is
\* modelled as an absent key: every read of a list field goes through this.
GetList(d, k) == IF k \in DOMAIN d THEN d[k] ELSE <<>>

\* (d.get("kind") or None)
KindOf(d) == IF Truthy(Get(d, "kind")) THEN d["kind"] ELSE None

\* a variant of DeadlineKey: the kind is not part of the key
DeadlineKeyDateOnly(d) == <<Get(d, "date"), None>>

\* process_entity.py:329, 335: the dedup key (date, kind) of a deadline
DeadlineKey(d) == <<Get(d, "date"), KindOf(d)>>

\* process_entity.py:331-341: the loop over the candidate deadlines, from
\* index i on; acc is merged_dead and seen is prev_dead
RECURSIVE MergeDeadlines(_, _, _, _, _)
MergeDeadlines(cs, i, acc, seen, facts) ==
    IF i > Len(cs) THEN acc
    ELSE LET d      == cs[i]
             date_s == Get(d, "date")
             kind   == KindOf(d)
             key    == DeadlineKey(d)
         IN  IF Truthy(date_s) /\ DatePresent(Str(date_s), facts.dates)
                /\ key \notin seen
             THEN MergeDeadlines(cs, i + 1,
                      Append(acc, IF kind # None
                                  THEN [date |-> date_s, kind |-> kind]
                                  ELSE [date |-> date_s]),
                      seen \cup {key}, facts)
             ELSE MergeDeadlines(cs, i + 1, acc, seen, facts)

\* kept[key] = value on the insertion-ordered dict `kept`, a sequence of
\* <<key, value>> pairs: an existing key keeps its position
DictPut(kept, key, value) ==
    IF \E i \in 1..Len(kept) : kept[i][1] = key
    THEN [i \in 1..Len(kept) |-> IF kept[i][1] = key THEN <<key, value>> ELSE kept[i]]
    ELSE Append(kept, <<key, value>>)

\* kept.get(key, default)
DictGet(kept, key, default) ==
    IF \E i \in 1..Len(kept) : kept[i][1] = key
    THEN kept[CHOOSE i \in 1..Len(kept) : kept[i][1] = key][2]
    ELSE default

\* process_entity.py:348: { _canon_contact_key(c): deepcopy(c) for c in prev }
RECURSIVE KeptOf(_, _, _)
KeptOf(cs, i, kept) ==
    IF i > Len(cs) THEN kept
    ELSE KeptOf(cs, i + 1, DictPut(kept, _canon_contact_key(cs[i]), cs[i]))

\* process_entity.py:350-353: the email / phone gate of one candidate contact
ContactEmail(c) == _email_from_any(OrEmpty(Get(c, "email")))
ContactPhone(c) == DigitsOnly(OrEmpty(Get(c, "phone")))
HasEmail(c, facts) == ContactEmail(c) \in facts.emails
HasPhone(c, facts) == ContactPhone(c) \in facts.phones /\ Len(ContactPhone(c)) >= 7

\* process_entity.py:357: the key under which an admitted contact is stored
AdmissionKey(c) ==
    IF ContactEmail(c) # <<>> THEN <<"e", ":">> \o ContactEmail(c)
    ELSE <<"n", "p", ":">> \o Lower(Strip(OrEmpty(Get(c, "name"))))
         \o <<"|">> \o ContactPhone(c)

\* a variant of MergedContact: the candidate's name and title are written
\* whether or not the chunk holds them
MergedContactTrusting(c, kept, facts) ==
    LET base == DictGet(kept, AdmissionKey(c),
                        [name |-> None, title |-> None,
                         email |-> IF ContactEmail(c) # <<>> THEN ContactEmail(c) ELSE None,
                         phone |-> IF ContactPhone(c) # <<>> THEN ContactPhone(c) ELSE None])
        b1 == IF Strip(OrEmpty(Get(c, "name"))) # <<>>
              THEN Put(base, "name", Strip(OrEmpty(Get(c, "name")))) ELSE base
        b2 == IF Strip(OrEmpty(Get(c, "title"))) # <<>>
              THEN Put(b1, "title", Strip(OrEmpty(Get(c, "title")))) ELSE b1
        b3 == IF ContactEmail(c) # <<>> THEN Put(b2, "email", ContactEmail(c)) ELSE b2
    IN  IF ContactPhone(c) # <<>> THEN Put(b3, "phone", ContactPhone(c)) ELSE b3

\* process_entity.py:358-369: the record stored for an admitted contact
MergedContact(c, kept, facts) ==
    LET email     == ContactEmail(c)
        phone     == ContactPhone(c)
        base      == DictGet(kept, AdmissionKey(c),
                             [name  |-> None, title |-> None,
                              email |-> IF email # <<>> THEN email ELSE None,
                              phone |-> IF phone # <<>> THEN phone ELSE None])
        name_new  == Strip(OrEmpty(Get(c, "name")))
        title_new == Strip(OrEmpty(Get(c, "title")))
        b1 == IF name_new # <<>> /\ ContainsNorm(facts.norm, name_new)
              THEN Put(base, "name", name_new) ELSE base
        b2 == IF title_new # <<>> /\ ContainsNorm(facts.norm, title_new)
              THEN Put(b1, "title", title_new) ELSE b1
        b3 == IF email # <<>> THEN Put(b2, "email", email) ELSE b2
    IN  IF phone # <<>> THEN Put(b3, "phone", phone) ELSE b3

\* process_entity.py:349-371: the loop over the candidate contacts
RECURSIVE MergeContacts(_, _, _, _)
MergeContacts(cs, i, kept, facts) ==
    IF i > Len(cs) THEN kept
    ELSE LET c == cs[i]
         IN  IF ~HasEmail(c, facts) /\ ~HasPhone(c, facts)
             THEN MergeContacts(cs, i + 1, kept, facts)
             ELSE MergeContacts(cs, i + 1,
                      DictPut(kept, AdmissionKey(c), MergedContact(c, kept, facts)),
                      facts)

\* list(kept.values())
DictValues(kept) == [i \in 1..Len(kept) |-> kept[i][2]]

\* a variant of UnionLoop: an evidenced item is appended whether or not its
\* normalised text is already there
UnionLoopNoDedup(cs, texts, i, acc, seen, facts) ==
    LET ok == {k \in i..Len(cs) : IsStr(texts[k]) /\ ContainsNorm(facts.norm, texts[k])}
    IN  acc \o Filter(cs, ok, 1)

\* process_entity.py:384-393, 399-407, 414-422: the loop that appends the
\* evidenced candidate items whose normalised text is new; texts[i] is the
\* text of the candidate item cs[i]
RECURSIVE UnionLoop(_, _, _, _, _, _)
UnionLoop(cs, texts, i, acc, seen, facts) ==
    IF i > Len(cs) THEN acc
    ELSE LET s == texts[i]
         IN  IF IsStr(s) /\ ContainsNorm(facts.norm, s) /\ _norm(s) \notin seen
             THEN UnionLoop(cs, texts, i + 1, Append(acc, cs[i]),
                            seen \cup {_norm(s)}, facts)
             ELSE UnionLoop(cs, texts, i + 1, acc, seen, facts)

\* process_entity.py:376-394
MergeCriteria(payload, prev, facts) ==
    LET pl      == GetList(prev, "evaluation_criteria")
        strs    == {i \in 1..Len(pl) : IsStr(Get(pl[i], "criterion"))}
        ec_prev == Filter(pl, strs, 1)
        cs      == GetList(payload, "evaluation_criteria")
    IN  UnionLoop(cs, [i \in 1..Len(cs) |-> Get(cs[i], "criterion")], 1, ec_prev,
                  {_norm(pl[i]["criterion"]) : i \in strs}, facts)

\* a variant of MergeStrList: the new items come before the previous ones
MergeStrListNewFirst(payload, prev, field, facts) ==
    LET pl  == GetList(prev, field)
        cs  == GetList(payload, field)
        all == UnionLoop(cs, cs, 1, pl,
                  {_norm(pl[i]) : i \in {j \in 1..Len(pl) : IsStr(pl[j])}}, facts)
    IN  SubSeq(all, Len(pl) + 1, Len(all)) \o pl

\* process_entity.py:397-408 (requirements) and 411-423 (_union_tokens)
MergeStrList(payload, prev, field, facts) ==
    LET pl == GetList(prev, field)
        cs == GetList(payload, field)
    IN  UnionLoop(cs, cs, 1, pl,
                  {_norm(pl[i]) : i \in {j \in 1..Len(pl) : IsStr(pl[j])}}, facts)

\* process_entity.py:297-305: dt_new.lower() (and the dict lookup) raise for a
\* truthy document_type that is not a str
MergeRaises(payload, prev_clean) ==
    LET dt_new == Get(payload, "document_type")
    IN  Truthy(dt_new) /\ dt_new # Get(prev_clean, "document_type") /\ ~IsStr(dt_new)

\* process_entity.filter_with_prev_backup, given what it reads of the text
MergeWithFacts(payload, facts, prev_clean) ==
    LET prev == prev_clean
        m1 == MergeDocumentId(payload, prev)
        m2 == MergeDocumentType(payload, m1, facts.norm)
        m3 == MergeScalars(payload, m2, 1, facts)
        pd == GetList(prev, "deadlines")
        lists ==
            [deadlines |->
                MergeDeadlines(GetList(payload, "deadlines"), 1, pd,
                               {DeadlineKey(pd[i]) : i \in 1..Len(pd)}, facts),
             contacts |->
                DictValues(MergeContacts(GetList(payload, "contacts"), 1,
                               KeptOf(GetList(prev, "contacts"), 1, <<>>),
                               facts)),
             evaluation_criteria  |-> MergeCriteria(payload, prev, facts),
             requirements         |-> MergeStrList(payload, prev, "requirements", facts),
             keywords             |-> MergeStrList(payload, prev, "keywords", facts),
             compliance_standards |-> MergeStrList(payload, prev, "compliance_standards", facts)]
    IN  [k \in DOMAIN m3 \cup DOMAIN lists |->
            IF k \in DOMAIN lists THEN lists[k] ELSE m3[k]]

\* process_entity.filter_with_prev_backup: the merged state (the log is not
\* modelled: nothing reads it)
filter_with_prev_backup(payload, t, prev_clean) ==
    MergeWithFacts(payload, TextFacts(t), prev_clean)

-----------------------------------------------------------------------------
(* The oracle's parsed JSON object and its way to a candidate payload:      *)
(* process_json.ensure_defaults, process_entity.sanitize_llm_extraction     *)
(*                                                                          *)
(* In a parsed JSON object the value of a list field is tagged with its     *)
(* JSON shape: RawNull, RawScalar(v) or RawList(items); scalar fields hold  *)
(* None, a str or an int.  Items of deadlines, contacts and                 *)
(* evaluation_criteria are objects (bare strings as items are outside the   *)
(* model).                                                                  *)

RawNull       == [kind |-> "null"]
RawScalar(v)  == [kind |-> "scalar", v |-> v]
RawList(its)  == [kind |-> "list", items |-> its]

_LIST_FIELDS == {"deadlines", "contacts", "evaluation_criteria",
                 "requirements", "keywords", "compliance_standards"}

\* the identifier uuid4() returns on its n-th call: "u" followed by n
Uuid(n) == <<"u", Digits[n + 1]>>

\* process_json._defaults_from_model(ExSchema): the fields of model.ExSchema
\* with their defaults; document_id comes from the default_factory
BASE_DEFAULTS(uuid) ==
    [document_type |-> None, document_title |-> None, document_id |-> uuid,
     issue_date |-> None, deadlines |-> RawList(<<>>),
     client_organization |-> None, client_industry |-> None,
     contacts |-> RawList(<<>>), contract_term |-> None,
     submission_method |-> None, evaluation_criteria |-> RawList(<<>>),
     pricing_structure |-> None, requirements |-> RawList(<<>>),
     keywords |-> RawList(<<>>), compliance_standards |-> RawList(<<>>)]

\* a variant of ensure_defaults: the keys of the payload are all kept
EnsureDefaultsKeepUnknown(payload, uuid) ==
    LET base == BASE_DEFAULTS(uuid)
        out  == [k \in DOMAIN base \cup DOMAIN payload |->
                    IF k \in DOMAIN payload THEN payload[k] ELSE base[k]]
    IN  [k \in DOMAIN out |->
            IF k \in _LIST_FIELDS /\ out[k].kind # "list"
            THEN RawList(<<>>) ELSE out[k]]

\* process_json.ensure_defaults(payload, ExSchema); uuid is the value the
\* default_factory of document_id produces in this call
ensure_defaults(payload, uuid) ==
    LET base == BASE_DEFAULTS(uuid)
        out  == [k \in DOMAIN base |->
                    IF k \in DOMAIN payload THEN payload[k] ELSE base[k]]
    IN  [k \in DOMAIN out |->
            IF k \in _LIST_FIELDS /\ out[k].kind # "list"
            THEN RawList(<<>>) ELSE out[k]]

\* common.defaults_none
defaults_none ==
    [document_type |-> None, document_title |-> None, issue_date |-> None,
     deadlines |-> RawNull, client_organization |-> None,
     client_industry |-> None, contacts |-> RawNull, contract_term |-> None,
     submission_method |-> None, evaluation_criteria |-> RawNull,
     pricing_structure |-> None, requirements |-> RawNull, keywords |-> RawNull,
     compliance_standards |-> RawNull, project_scope |-> None,
     document_id |-> None]

\* the elements of s for which Keep holds, in order
SelectItems(s, Keep(_)) == Filter(s, {i \in 1..Len(s) : Keep(s[i])}, 1)

\* a variant of _to_str_list: a null stays None
ToStrListKeepNull(x) ==
    IF x.kind = "null" THEN None
    ELSE IF x.kind = "list"
    THEN LET strs == [i \in 1..Len(x.items) |-> Strip(Str(x.items[i]))]
         IN  SelectItems(strs, LAMBDA t : t # <<>>)
    ELSE IF x.kind = "scalar" /\ IsStr(x.v) /\ Strip(x.v) # <<>>
         THEN <<Strip(x.v)>>
    ELSE <<>>
\* process_entity._to_str_list
_to_str_list(x) ==
    IF x.kind = "list"
    THEN LET strs == [i \in 1..Len(x.items) |-> Strip(Str(x.items[i]))]
         IN  SelectItems(strs, LAMBDA t : t # <<>>)
    ELSE IF x.kind = "scalar" /\ IsStr(x.v) /\ Strip(x.v) # <<>>
         THEN <<Strip(x.v)>>
    ELSE <<>>

\* process_entity._norm_deadlines
_norm_deadlines(x) ==
    IF x.kind = "list"
    THEN LET ok(it) == /\ "date" \in DOMAIN it /\ IsStr(it["date"])
                       /\ Strip(it["date"]) # <<>>
             kept   == SelectItems(x.items, ok)
         IN  [i \in 1..Len(kept) |-> [date |-> Strip(kept[i]["date"])]]
    ELSE IF x.kind = "scalar" /\ IsStr(x.v) /\ Strip(x.v) # <<>>
         THEN <<[date |-> Strip(x.v)]>>
    ELSE <<>>

\* process_entity._norm_criteria
_norm_criteria(x) ==
    LET ok(it) == "criterion" \in DOMAIN it /\ Strip(Str(it["criterion"])) # <<>>
    IN  IF x.kind = "list"
        THEN LET kept == SelectItems(x.items, ok)
             IN  [i \in 1..Len(kept) |-> [criterion |-> Strip(Str(kept[i]["criterion"]))]]
        ELSE IF x.kind = "scalar" /\ IsStr(x.v) /\ Strip(x.v) # <<>>
             THEN <<[criterion |-> Strip(x.v)]>>
        ELSE <<>>

\* common.MISSING_TOKENS
MISSING_TOKENS ==
    {<<>>, <<"n","o","n","e">>, <<"n","u","l","l">>, <<"n","/","a">>, <<"n","a">>,
     <<"-">>, <<"-","-">>, <<"n","\\","a">>,
     <<"n","o","t"," ","a","p","p","l","i","c","a","b","l","e">>}

\* process_entity._is_missing
_is_missing(val) == val = None \/ Lower(Strip(Str(val))) \in MISSING_TOKENS

\* process_entity._clean_text
_clean_text(val) == IF val = None THEN <<>> ELSE Strip(WsSub(Str(val)))

\* email.utils.parseaddr(s)[0] for "Name <addr>": the text before "<"
ParseAddrName(s) ==
    LET lt == {i \in 1..Len(s) : s[i] = "<"}
    IN  IF lt # {} /\ \E j \in 1..Len(s) : s[j] = ">"
        THEN Strip(SubSeq(s, 1, (CHOOSE a \in lt : \A b \in lt : a <= b) - 1))
        ELSE <<>>

\* process_entity._norm_email
_norm_email(val) ==
    IF ~Truthy(val) THEN <<>>
    ELSE LET addr   == Strip(Str(val))
             parsed == ParseAddr(addr)
             low    == Lower(Strip(IF parsed # <<>> THEN parsed ELSE addr))
         IN  IF EmailReMatch(low) THEN low ELSE <<>>

\* process_entity._norm_phone
_norm_phone(val) ==
    IF ~Truthy(val) THEN <<>>
    ELSE LET s0 == Str(val)
             s1 == SelectItems(s0, LAMBDA c : IsDigit(c) \/ c = "+")
             \* remove every "+" that is not the first character
             s2 == Filter(s1, {i \in 1..Len(s1) : i = 1 \/ s1[i] # "+"}, 1)
             \* ^\+0+ becomes "+"
             nz == {i \in 2..Len(s2) : s2[i] # "0"}
         IN  IF s2 # <<>> /\ s2[1] = "+" /\ Len(s2) >= 2 /\ s2[2] = "0"
             THEN IF nz = {} THEN <<"+">>
                  ELSE <<"+">> \o SubSeq(s2, CHOOSE i \in nz : \A j \in nz : i <= j, Len(s2))
             ELSE s2

UpperChar(c) ==
    IF c \in LowerSet THEN UpperCase[CHOOSE i \in 1..26 : LowerCase[i] = c] ELSE c

\* str.title(): a letter after a non-letter is upper case, the others lower
Title(s) ==
    [i \in 1..Len(s) |->
        IF i = 1 \/ ~IsLetter(s[i - 1]) THEN UpperChar(s[i]) ELSE LowerChar(s[i])]

\* process_entity._name_from_email
_name_from_email(email) ==
    IF email = <<>> THEN <<>>
    ELSE LET ats   == {i \in 1..Len(email) : email[i] = "@"}
             local == IF ats = {} THEN email
                      ELSE SubSeq(email, 1, (CHOOSE i \in ats : \A j \in ats : i <= j) - 1)
             sp    == [i \in 1..Len(local) |->
                          IF local[i] \in {".", "_", "-"} THEN " " ELSE local[i]]
             nd    == SelectItems(sp, LAMBDA c : ~IsDigit(c))
         IN  Title(Strip(WsSub(nd)))

\* a variant of ContactOrEmpty: a contact without name and email is dropped,
\* whatever its phone
ContactOrEmptyIgnoringPhone(n, t, e, p) ==
    IF n = <<>> /\ e = <<>> THEN <<>>
    ELSE [name |-> n, title |-> t, email |-> e, phone |-> p]

\* process_entity.py:96-100: the contact, or the empty dict {} (<<>>) when
\* name, email and phone are all empty
ContactOrEmpty(n, t, e, p) ==
    IF n = <<>> /\ e = <<>> /\ p = <<>> THEN <<>>
    ELSE [name |-> n, title |-> t, email |-> e, phone |-> p]

\* process_entity.py:89-94: a name of the form "Name <email>" is split;
\* real and addr are the two parts parseaddr(n) returns
SplitName(n, t, e, p, real, addr) ==
    IF e = <<>> /\ n # <<>> /\ EmailReMatch(addr)
    THEN ContactOrEmpty(_clean_text(IF real # <<>> THEN real ELSE n), t,
                        Lower(addr), p)
    ELSE ContactOrEmpty(n, t, e, p)

\* process_entity.py:85-87: an empty name is derived from the email
DeriveName(n, t, e, p) ==
    IF n = <<>> /\ e # <<>> THEN _name_from_email(e) ELSE n

\* process_entity.py:89-100, for the name n of lines 80 and 85-87
FromCleanName(n, t, e, p) == SplitName(n, t, e, p, ParseAddrName(n), ParseAddr(n))

\* process_entity.py:85-100, for the normalised values of lines 80-83
FromNormalised(n, t, e, p) == FromCleanName(DeriveName(n, t, e, p), t, e, p)

\* process_entity._dict_from_name_email_phone
_dict_from_name_email_phone(name, title, email, phone) ==
    FromNormalised(IF _is_missing(name) THEN <<>> ELSE _clean_text(name),
                   IF _is_missing(title) THEN <<>> ELSE _clean_text(title),
                   _norm_email(email), _norm_phone(phone))

\* dict.get(k, "") of a raw contact
GetOrEmpty(d, k) == IF k \in DOMAIN d THEN d[k] ELSE <<>>

\* process_entity._coerce_one for an object
_coerce_one(v) ==
    _dict_from_name_email_phone(GetOrEmpty(v, "name"), GetOrEmpty(v, "title"),
                                GetOrEmpty(v, "email"), GetOrEmpty(v, "phone"))

\* process_entity.py:140-144: the dedup key of _dedupe.  The pattern of the
\* re.sub in it is a backslash followed by "D", which no normalised phone
\* holds, so the phone enters the key as it is.
DedupeKey(c) ==
    IF c["email"] # <<>> THEN <<"e", ":">> \o c["email"]
    ELSE IF c["name"] # <<>> /\ c["phone"] # <<>>
         THEN <<"n", "p", ":">> \o Lower(c["name"]) \o <<"|">> \o c["phone"]
    ELSE <<"n", ":">> \o Lower(c["name"])

\* process_entity._dedupe: the first contact of every key, in input order
_dedupe(contacts) ==
    Filter(contacts,
           {i \in 1..Len(contacts) :
               /\ contacts[i] # <<>>
               /\ \A j \in 1..(i - 1) :
                      contacts[j] = <<>> \/ DedupeKey(contacts[j]) # DedupeKey(contacts[i])},
           1)

\* process_entity._norm_contacts
_norm_contacts(x) ==
    LET items   == IF x.kind = "list" THEN x.items
                   ELSE IF x.kind = "null" THEN <<>> ELSE <<x.v>>
        coerced == [i \in 1..Len(items) |-> _coerce_one(items[i])]
    IN  _dedupe(SelectItems(coerced, LAMBDA c : c # <<>>))

\* process_entity.sanitize_llm_extraction(d, empty_string_for_scalars=False)
sanitize_llm_extraction(d) ==
    LET data == [k \in DOMAIN d \cup DOMAIN defaults_none |->
                    IF k \in DOMAIN d THEN d[k] ELSE defaults_none[k]]
    IN  [k \in DOMAIN data |->
            IF k \in {"requirements", "keywords", "compliance_standards"}
                THEN _to_str_list(data[k])
            ELSE IF k = "deadlines" THEN _norm_deadlines(data[k])
            ELSE IF k = "contacts" THEN _norm_contacts(data[k])
            ELSE IF k = "evaluation_criteria" THEN _norm_criteria(data[k])
            ELSE data[k]]

\* a variant of CleanData: the deadlines are not filtered
CleanDataUnfiltered(parsed, uuid) ==
    sanitize_llm_extraction(ensure_defaults(parsed, uuid))

\* llm.py:48-57: ensure_defaults, sanitize, then the deadline post-filter
CleanData(parsed, uuid) ==
    LET clean == sanitize_llm_extraction(ensure_defaults(parsed, uuid))
    IN  [clean EXCEPT !["deadlines"] =
            SelectItems(clean["deadlines"], LAMBDA d : contains_date(d["date"]))]

-----------------------------------------------------------------------------
(* Inputs of the model: chunk texts, candidate payloads, previous states    *)

\* "RFP due 2025-09-29. Jane Doe <jane@x.com>"
TextA == <<"R","F","P"," ","d","u","e"," ","2","0","2","5","-","0","9","-","2","9",
           "."," ","J","a","n","e"," ","D","o","e"," ","<","j","a","n","e","@","x",
           ".","c","o","m",">">>
\* "call Bo  Li 555-0100, CEO" (two blanks inside the name)
TextB == <<"c","a","l","l"," ","B","o"," "," ","L","i"," ","5","5","5","-","0","1",
           "0","0",","," ","C","E","O">>
\* "client is now Globex Corp, other terms: ISO 9001 on 29/09/2025"
TextC == <<"c","l","i","e","n","t"," ","i","s"," ","n","o","w"," ","G","l","o","b",
           "e","x"," ","C","o","r","p",","," ","o","t","h","e","r"," ","t","e","r",
           "m","s",":"," ","I","S","O"," ","9","0","0","1"," ","o","n"," ","2","9",
           "/","0","9","/","2","0","2","5">>

Texts == {TextA, TextB, TextC}

ISO_DATE  == <<"2","0","2","5","-","0","9","-","2","9">>
DMY_DATE  == <<"2","9","/","0","9","/","2","0","2","5">>
JANE      == <<"J","a","n","e"," ","D","o","e">>
JANE_MAIL == <<"j","a","n","e","@","x",".","c","o","m">>
JANE_MAIL_UPPER == <<"J","A","N","E","@","X",".","C","O","M">>
GHOST_MAIL == <<"g","h","o","s","t","@","y",".","i","o">>
BO_LI     == <<"B","o"," ","L","i">>
CY        == <<"C","y">>
CEO       == <<"C","E","O">>
PHONE     == <<"5","5","5","-","0","1","0","0">>
PHONE_DIGITS == <<"5","5","5","0","1","0","0">>
PHONE_GHOST  == <<"5","5","5","9","9","9","9">>
ACME      == <<"A","c","m","e">>
GLOBEX    == <<"G","l","o","b","e","x"," ","C","o","r","p">>
BID       == <<"B","i","d">>
ISO9001   == <<"I","S","O"," ","9","0","0","1">>
ISO9001_WS == <<"i","s","o"," "," ","9","0","0","1">>
TERMS     == <<"o","t","h","e","r"," ","t","e","r","m","s">>
DUE       == <<"d","u","e">>
OPEN      == <<"o","p","e","n">>
OTHER_UPPER == <<"O","T","H","E","R">>
TERMS_CAPS  == <<"O","t","h","e","r"," "," ","T","E","R","M","S">>
UUID1     == <<"u","1">>
UUID2     == <<"u","2">>

list_fields == <<"deadlines", "contacts", "evaluation_criteria",
                 "requirements", "keywords", "compliance_standards">>

\* common.PREV_STATE: the state a session starts from (no document_id key)
PREV_STATE ==
    [document_type |-> None, document_title |-> None, issue_date |-> None,
     deadlines |-> <<>>, client_organization |-> None, client_industry |-> None,
     contacts |-> <<>>, project_scope |-> None, contract_term |-> None,
     submission_method |-> None, evaluation_criteria |-> <<>>,
     pricing_structure |-> None, requirements |-> <<>>, keywords |-> <<>>,
     compliance_standards |-> <<>>]

Contact(n, t, e, p) == [name |-> n, title |-> t, email |-> e, phone |-> p]

\* a payload with the given fields set and every other field empty
Payload(fields) ==
    [k \in DOMAIN PREV_STATE \cup DOMAIN fields |->
        IF k \in DOMAIN fields THEN fields[k] ELSE PREV_STATE[k]]

\* Scenario A of the specification, with a document type
CandA == Payload([document_id |-> UUID1, document_type |-> DOC_RFP,
                  deadlines |-> <<[date |-> ISO_DATE]>>,
                  contacts |-> <<Contact(JANE, <<>>, JANE_MAIL_UPPER, <<>>)>>])
\* an organisation (evidenced by TextC only) and a title no text holds
CandB == Payload([document_id |-> UUID2, client_organization |-> GLOBEX,
                  document_title |-> BID, project_scope |-> TERMS])
\* a contact whose phone is in TextB, with an email no text holds, and a
\* contact whose email is in TextA, with a phone no text holds
CandC == Payload([contacts |-> <<Contact(CY, CEO, GHOST_MAIL, PHONE),
                                 Contact(JANE, CEO, JANE_MAIL, PHONE_GHOST)>>])
\* contacts without email that share a phone of TextB; only the name of the
\* second is in TextB
CandD == Payload([contacts |-> <<Contact(CY, <<>>, <<>>, PHONE_DIGITS),
                                 Contact(BO_LI, <<>>, <<>>, PHONE_DIGITS),
                                 Contact(JANE, <<>>, <<>>, PHONE)>>])
\* list items: duplicates up to whitespace and case, the same date twice
CandE == Payload([document_type |-> DOC_OTHER, issue_date |-> DMY_DATE,
                  deadlines |-> <<[date |-> DMY_DATE],
                                  [date |-> ISO_DATE, kind |-> DUE]>>,
                  evaluation_criteria |-> <<[criterion |-> TERMS]>>,
                  requirements |-> <<ISO9001_WS, ISO9001>>,
                  keywords |-> <<GLOBEX, BID>>,
                  compliance_standards |-> <<ISO9001>>])
\* a type that is no value of the enum; the same date with and without kinds;
\* the same criterion twice, up to case and whitespace
CandF == Payload([document_type |-> OTHER_UPPER,
                  deadlines |-> <<[date |-> ISO_DATE], [date |-> ISO_DATE],
                                  [date |-> ISO_DATE, kind |-> DUE],
                                  [date |-> ISO_DATE, kind |-> <<>>],
                                  [date |-> ISO_DATE, kind |-> OPEN]>>,
                  evaluation_criteria |-> <<[criterion |-> TERMS],
                                            [criterion |-> TERMS_CAPS]>>])
\* a contact with the email of TextA and the name, title and phone of TextB
CandG == Payload([contacts |-> <<Contact(BO_LI, CEO, JANE_MAIL, PHONE)>>])

\* text items of TextC in another casing and spacing, some of them
\* duplicates, up to case and whitespace, of items other candidates give
CandH == Payload([requirements |-> <<ISO9001_WS, TERMS>>,
                  keywords |-> <<TERMS_CAPS, ISO9001, GLOBEX>>,
                  compliance_standards |-> <<TERMS_CAPS, ISO9001_WS>>])

Candidates == {CandA, CandB, CandC, CandD, CandE, CandF, CandG, CandH}

\* a state that holds an identifier, scalars, a contact and a requirement,
\* and lacks the keys of the other list fields
StateAcme ==
    [document_id |-> UUID1, document_type |-> DOC_RFI, document_title |-> None,
     client_organization |-> ACME,
     contacts |-> <<Contact(JANE, None, JANE_MAIL, None)>>,
     requirements |-> <<ISO9001>>]

\* the states a merge may be given as prev_clean at the start
InitStates == {PREV_STATE, StateAcme}

\* A chunk is one entry of the parsed document.  A "text" entry holds its
\* content and source metadata, a "structured" entry holds the content of a
\* table; Malformed is an entry without the keys the ingestion reads.
TextChunk(content) == [document_type |-> "text", content |-> content]
TableChunk(content) == [document_type |-> "structured", table_content |-> content]
Malformed == [document_type |-> "text"]

\* process_json.ingest_json_results_to_blob([chunk]): the blob and the number
\* of metadata records; "" and [] when reading the entry raises
ingest_json_results_to_blob(chunk) ==
    IF chunk.document_type = "text" /\ "content" \in DOMAIN chunk
        THEN [text |-> chunk.content \o <<"\n">>, metadatas |-> 1]
    ELSE IF chunk.document_type = "structured" /\ "table_content" \in DOMAIN chunk
        THEN [text |-> chunk.table_content \o <<"\n">>, metadatas |-> 0]
    ELSE [text |-> <<>>, metadatas |-> 0]

\* the chunks a document of the model is made of
Chunks == {TextChunk(TextA), TextChunk(TextB), TextChunk(<<" ", " ">>),
           TableChunk(TextB), Malformed}

\* what the merges read of each text, computed once
FactsTable ==
    {<<t, TextFacts(t)>> :
        t \in Texts \cup {ingest_json_results_to_blob(c).text : c \in Chunks}}
FactsOf(t) == (CHOOSE p \in FactsTable : p[1] = t)[2]

MaxMerges == 2

-----------------------------------------------------------------------------
(* The oracle and one attempt of llm.invoke_with_retries                    *)
(*                                                                          *)
(* A reply of the oracle is either an exception raised by llm.call or the   *)
(* text it returns.  Error messages are strings; the None of last_err is    *)
(* NO_ERR.  An optional record is <<>> for None and <<r>> for the record r. *)

NO_ERR == "<None>"

Raise(exc, msg) == [kind |-> "raise", exc |-> exc, msg |-> msg]
Reply(t)        == [kind |-> "text", text |-> t]

\* str.find / str.rfind: the first and the last index of c in t, 0 if none
Find(t, c) ==
    LET at == {i \in 1..Len(t) : t[i] = c}
    IN  IF at = {} THEN 0 ELSE CHOOSE i \in at : \A j \in at : i <= j
RFind(t, c) ==
    LET at == {i \in 1..Len(t) : t[i] = c}
    IN  IF at = {} THEN 0 ELSE CHOOSE i \in at : \A j \in at : i >= j

\* process_json.py:26-27: extract_json_between_braces raises
ExtractRaises(t) == Find(t, "{") = 0 \/ RFind(t, "}") = 0

\* a variant of extract_json_between_braces: the slice ends at the first "}"
ExtractToFirstClose(t) ==
    IF Find(t, "{") <= Find(t, "}")
    THEN SubSeq(t, Find(t, "{"), Find(t, "}")) ELSE <<>>

\* process_json.extract_json_between_braces, when it does not raise: the
\* slice from the first "{" to the last "}", empty when they are reversed
extract_json_between_braces(t) ==
    IF Find(t, "{") <= RFind(t, "}")
    THEN SubSeq(t, Find(t, "{"), RFind(t, "}")) ELSE <<>>

\* prose without any brace: no data
PROSE ==
    <<"n","o"," ","d","a","t","a">>
\* the last '}' precedes the first '{': done } then {
REVERSED ==
    <<"d","o","n","e"," ","}"," ","t","h","e","n"," ","{">>
\* an opening brace that is never closed: {oops
UNCLOSED ==
    <<"{","o","o","p","s">>
\* a braced span that is not JSON: {oops}
BAD_JSON ==
    <<"{","o","o","p","s","}">>
\* an object wrapped in prose: ok {"document_title":"Bid"} bye
JSON_TITLE ==
    <<"o","k"," ","{","\"","d","o","c","u","m","e","n","t","_","t","i","t",
    "l","e","\"",":","\"","B","i","d","\"","}"," ","b","y","e">>
\* an object with a numeric title: {"document_title":7,"keywords":null}
JSON_NUM ==
    <<"{","\"","d","o","c","u","m","e","n","t","_","t","i","t","l","e","\"",
    ":","7",",","\"","k","e","y","w","o","r","d","s","\"",":","n","u","l",
    "l","}">>
\* a contact whose name no chunk holds: {"contacts":[{"name":"Cy","phone":"555-0100"}]}
JSON_CY ==
    <<"{","\"","c","o","n","t","a","c","t","s","\"",":","[","{","\"","n","a",
    "m","e","\"",":","\"","C","y","\"",",","\"","p","h","o","n","e","\"",":",
    "\"","5","5","5","-","0","1","0","0","\"","}","]","}">>
\* the facts of TextA: {"document_type":"RFP","contacts":[{"name":"Jane Doe","email":"jane@x.com"}]}
JSON_JANE ==
    <<"{","\"","d","o","c","u","m","e","n","t","_","t","y","p","e","\"",":",
    "\"","R","F","P","\"",",","\"","c","o","n","t","a","c","t","s","\"",":",
    "[","{","\"","n","a","m","e","\"",":","\"","J","a","n","e"," ","D","o",
    "e","\"",",","\"","e","m","a","i","l","\"",":","\"","j","a","n","e","@",
    "x",".","c","o","m","\"","}","]","}">>
\* an object with its own document_id: {"document_id":"u9","client_organization":"Globex Corp"}
JSON_GLOBEX ==
    <<"{","\"","d","o","c","u","m","e","n","t","_","i","d","\"",":","\"","u",
    "9","\"",",","\"","c","l","i","e","n","t","_","o","r","g","a","n","i",
    "z","a","t","i","o","n","\"",":","\"","G","l","o","b","e","x"," ","C",
    "o","r","p","\"","}">>

\* an object with a numeric type: {"document_type":5}
JSON_TYPE_NUM ==
    <<"{","\"","d","o","c","u","m","e","n","t","_","t","y","p","e","\"",":",
    "5","}">>

\* a title and a scope that TextA holds: {"document_title":"RFP","project_scope":"due 2025-09-29"}
JSON_SCOPE ==
    <<"{","\"","d","o","c","u","m","e","n","t","_","t","i","t","l","e","\"",
    ":","\"","R","F","P","\"",",","\"","p","r","o","j","e","c","t","_","s",
    "c","o","p","e","\"",":","\"","d","u","e"," ","2","0","2","5","-","0",
    "9","-","2","9","\"","}">>

\* deadlines with and without a date literal: {"deadlines":[{"date":"soon"},{"date":" 2025-09-29"},{"date":"TBD"},{"date":"29/09/2025"}]}
JSON_DATES ==
    <<"{","\"","d","e","a","d","l","i","n","e","s","\"",":","[","{","\"","d",
    "a","t","e","\"",":","\"","s","o","o","n","\"","}",",","{","\"","d","a",
    "t","e","\"",":","\""," ","2","0","2","5","-","0","9","-","2","9","\"",
    "}",",","{","\"","d","a","t","e","\"",":","\"","T","B","D","\"","}",",",
    "{","\"","d","a","t","e","\"",":","\"","2","9","/","0","9","/","2","0",
    "2","5","\"","}","]","}">>

\* json.loads on every span the replies of the model hold: the parsed object,
\* or pos and msg of the json.JSONDecodeError
JsonTable ==
    {<<extract_json_between_braces(REVERSED),
       [ok |-> FALSE, pos |-> 0, msg |-> "Expecting value"]>>,
     <<extract_json_between_braces(BAD_JSON),
       [ok |-> FALSE, pos |-> 1, msg |-> "Expecting property name enclosed in double quotes"]>>,
     <<extract_json_between_braces(JSON_TITLE),
       [ok |-> TRUE, data |->
          [document_title |-> <<"B","i","d">>]]>>,
     <<extract_json_between_braces(JSON_NUM),
       [ok |-> TRUE, data |->
          [document_title |-> <<"int","7">>, keywords |-> RawNull]]>>,
     <<extract_json_between_braces(JSON_CY),
       [ok |-> TRUE, data |->
          [contacts |-> RawList(<<[name |-> <<"C","y">>, phone |-> <<"5","5",
          "5","-","0","1","0","0">>]>>)]]>>,
     <<extract_json_between_braces(JSON_JANE),
       [ok |-> TRUE, data |->
          [document_type |-> <<"R","F","P">>,
           contacts |-> RawList(<<[name |-> <<"J","a","n","e"," ","D","o",
          "e">>, email |-> <<"j","a","n","e","@","x",".","c","o","m">>]>>)]]>>,
     <<extract_json_between_braces(JSON_GLOBEX),
       [ok |-> TRUE, data |->
          [document_id |-> <<"u","9">>, client_organization |-> <<"G","l",
          "o","b","e","x"," ","C","o","r","p">>]]>>,
     <<extract_json_between_braces(JSON_TYPE_NUM),
       [ok |-> TRUE, data |->
          [document_type |-> <<"int","5">>]]>>,
     <<extract_json_between_braces(JSON_SCOPE),
       [ok |-> TRUE, data |->
          [document_title |-> <<"R","F","P">>, project_scope |-> <<"d","u",
          "e"," ","2","0","2","5","-","0","9","-","2","9">>]]>>,
     <<extract_json_between_braces(JSON_DATES),
       [ok |-> TRUE, data |->
          [deadlines |-> RawList(<<[date |-> <<"s","o","o","n">>],
          [date |-> <<" ","2","0","2","5","-","0","9","-","2","9">>],
          [date |-> <<"T","B","D">>],[date |-> <<"2","9","/","0","9","/","2",
          "0","2","5">>]>>)]]>>}

\* json.loads(raw_json)
json_loads(raw_json) == (CHOOSE p \in JsonTable : p[1] = raw_json)[2]

TIMEOUT == Raise("TimeoutError", "timed out")

\* the replies the oracle may give
FailingReplies == {TIMEOUT, Reply(PROSE), Reply(UNCLOSED), Reply(REVERSED),
                   Reply(BAD_JSON)}
JsonReplies    == {Reply(JSON_TITLE), Reply(JSON_NUM), Reply(JSON_CY),
                   Reply(JSON_JANE), Reply(JSON_GLOBEX), Reply(JSON_TYPE_NUM),
                   Reply(JSON_SCOPE), Reply(JSON_DATES)}
Replies        == FailingReplies \cup JsonReplies

\* llm.py:32-73: the body of one attempt.  ok with the clean_data of line 60,
\* or the last_err of lines 62-73.  Neither ensure_defaults nor
\* sanitize_llm_extraction validates, so the ValidationError branch of
\* lines 64-71 is never entered.
AttemptOutcome(reply, uuid) ==
    IF reply.kind = "raise"
    THEN [ok |-> FALSE,
          err |-> "Unexpected error: " \o reply.exc \o ": " \o reply.msg]
    ELSE IF ExtractRaises(reply.text)
    THEN [ok |-> FALSE,
          err |-> "Unexpected error: ValueError: Error extracting JSON: "
                  \o "No valid JSON object found in the text."]
    ELSE LET parsed == json_loads(extract_json_between_braces(reply.text))
         IN  IF parsed.ok
             THEN [ok |-> TRUE, data |-> CleanData(parsed.data, uuid)]
             ELSE [ok |-> FALSE,
                   err |-> "JSON decoding error at pos " \o ToString(parsed.pos)
                           \o ": " \o parsed.msg]

\* prompt._error_addendum with common.ERROR_PROMPT
_error_addendum(err) ==
    IF err = NO_ERR THEN ""
    ELSE "\n\n--- PREVIOUS_ATTEMPT_ERROR ---\n" \o err
         \o "\nFix the issue and return a single JSON object that matches"
         \o " the schema (no extra keys, no comments)."

\* the sys_base of the calls of the model
SYS_BASE == "SYSTEM_PROMPT"

\* the user_base of the calls of the model
USER_BASE == "USER_PROMPT"

\* a variant of SystemMessage: the error of the previous attempt is left out
SystemMessageBare(err) == SYS_BASE
\* llm.py:31: the system message of an attempt; err is last_err
SystemMessage(err) == SYS_BASE \o _error_addendum(err)

\* llm.py:22: backoff_sec, in milliseconds
BACKOFF_MS == 600

\* a variant of SleepAfter: every failed attempt is followed by a sleep
SleepAfterEveryFailure(att, r) == <<BACKOFF_MS * (att + 1)>>
\* llm.py:76-77: the sleeps after the failure of the attempt of index att
\* (from 0), with r retries
SleepAfter(att, r) == IF att < r THEN <<BACKOFF_MS * (att + 1)>> ELSE <<>>

MaxRetries == 2

RetryIdle ==
    /\ rpc = "idle" /\ attempt = 0 /\ retries = 0 /\ last_err = NO_ERR
    /\ user_base = <<>>
    /\ calls = <<>> /\ sys_msgs = <<>> /\ user_msgs = <<>> /\ sleeps = <<>>
    /\ ret = <<>>
    /\ uuids = 0

\* Dict objects have an identity: objs[i] is what object i holds now, prev
\* is the object the local prev_state names, arg and payload are the objects
\* the last call of filter_with_prev_backup was given as prev_clean and as
\* payload, arg0 and payload0 are what these two held when it was called.
NoObjects ==
    [objs |-> <<>>, prev |-> 0, arg |-> 0, arg0 |-> <<>>, payload |-> 0,
     payload0 |-> <<>>]

SanitizeIdle == raw = <<>> /\ filled = <<>> /\ sane = <<>>

SessionIdle ==
    /\ spc = "idle" /\ doc = 0 /\ taken = 0 /\ prev_state = <<>>
    /\ pre_merge = <<>> /\ chunk_text = <<>> /\ cleaned = <<>>
    /\ validated = <<>> /\ outcome = "none" /\ results = <<>>
    /\ oracle_calls = <<>>
    /\ heap = NoObjects

-----------------------------------------------------------------------------
(* Specification Spec: a sequence of merges                                 *)

Init ==
    /\ state \in InitStates
    /\ start = state /\ before = state /\ cand = <<>> /\ text = <<>> /\ merges = 0
    /\ RetryIdle /\ SessionIdle /\ SanitizeIdle

\* cleaned, log = filter_with_prev_backup(payload, chunk_text, prev_clean=state)
Merge(payload, t) ==
    /\ merges < MaxMerges
    /\ ~MergeRaises(payload, state)
    /\ state' = MergeWithFacts(payload, FactsOf(t), state)
    /\ before' = state /\ cand' = payload /\ text' = t
    /\ merges' = merges + 1
    /\ UNCHANGED <<start, rvars, svars, pvars>>

Next == \E payload \in Candidates, t \in Texts : Merge(payload, t)

Spec == Init /\ [][Next]_vars

-----------------------------------------------------------------------------
(* Specification SpecRetry: one call of llm.invoke_with_retries             *)

MergeIdle ==
    /\ state = PREV_STATE /\ start = PREV_STATE /\ before = PREV_STATE
    /\ cand = <<>> /\ text = <<>> /\ merges = 0

\* llm.py:28: entry of invoke_with_retries(..., retries=r)
Enter(r, user) ==
    /\ rpc' = "loop" /\ retries' = r /\ attempt' = 0 /\ last_err' = NO_ERR
    /\ user_base' = <<user>>
    /\ calls' = <<>> /\ sys_msgs' = <<>> /\ user_msgs' = <<>> /\ sleeps' = <<>>
    /\ ret' = <<>>
    /\ UNCHANGED uuids

InitRetry == MergeIdle /\ RetryIdle /\ SessionIdle /\ SanitizeIdle

Invoke(r) ==
    /\ rpc = "idle" /\ spc = "idle"
    /\ Enter(r, USER_BASE)
    /\ UNCHANGED <<mvars, pvars, svars>>

AttemptsOffByOne(r) == r + 2
\* llm.py:30: the number of iterations of `for attempt in range(retries + 1)`
Attempts(r) == r + 1

SuccessKeepsError(data, err) == [data |-> <<data>>, err |-> err]
\* llm.py:60: `return clean_data, None`; err is last_err at that point
Success(data, err) == [data |-> <<data>>, err |-> NO_ERR]

\* a variant of Failure: the exhausted call hands back a record
FailureWithRecord(err) == [data |-> <<CandA>>, err |-> err]
\* llm.py:80: `return None, last_err`
Failure(err) == [data |-> <<>>, err |-> err]

\* llm.py:30-77: one iteration of the loop, with the reply the oracle gives
Attempt(reply) ==
    /\ rpc = "loop" /\ attempt < Attempts(retries)
    /\ \E out \in {AttemptOutcome(reply, Uuid(uuids + 1))} :
           /\ sys_msgs' = Append(sys_msgs, SystemMessage(last_err))
           /\ user_msgs' = Append(user_msgs, user_base[1])
           /\ calls' = Append(calls, reply)
           \* ensure_defaults has run when the span parsed
           /\ uuids' = IF out.ok THEN uuids + 1 ELSE uuids
           /\ IF out.ok
              THEN /\ ret' = Success(out.data, last_err)
                   /\ rpc' = "done"
                   /\ UNCHANGED <<attempt, last_err, sleeps>>
              ELSE /\ last_err' = out.err
                   /\ sleeps' = sleeps \o SleepAfter(attempt, retries)
                   /\ attempt' = attempt + 1
                   /\ UNCHANGED <<ret, rpc>>
    /\ UNCHANGED <<retries, user_base, mvars, pvars, svars>>

\* llm.py:79-80: the loop is over, every attempt has failed
ReturnFailure ==
    /\ rpc = "loop" /\ attempt = Attempts(retries)
    /\ ret' = Failure(last_err)
    /\ rpc' = "done"
    /\ UNCHANGED <<attempt, retries, user_base, last_err, calls, sys_msgs,
                   user_msgs, sleeps, uuids,
                   mvars, pvars, svars>>

NextRetry ==
    \/ \E r \in 0..MaxRetries : Invoke(r)
    \/ \E reply \in Replies : Attempt(reply)
    \/ ReturnFailure

SpecRetry == InitRetry /\ [][NextRetry]_vars

-----------------------------------------------------------------------------
(* Validation against model.ExSchema                                        *)

OptStr(v) == v = None \/ IsStr(v)

\* pydantic EmailStr, for the addresses of the model: the whole string is
\* one address
IsEmailStr(v) == IsStr(v) /\ v # <<>> /\ EmailMatchEnd(v, 1) = Len(v)

\* model.py:29: the values of the Literal of document_type
DocumentTypes == {DOC_RFP, DOC_RFI, DOC_RFQ, DOC_SOURCES_SOUGHT, DOC_OTHER}

\* model.py:30-41: the Optional[str] fields of ExSchema
schema_str_fields ==
    {"document_title", "document_id", "issue_date", "client_organization",
     "client_industry", "contract_term", "submission_method",
     "pricing_structure"}

\* model.Deadline, model.Contact, model.EvalCriterion accept the item
ValidDeadline(d) ==
    "date" \in DOMAIN d /\ IsStr(d["date"]) /\ OptStr(Get(d, "purpose"))
ValidContact(c) ==
    /\ "name" \in DOMAIN c /\ IsStr(c["name"])
    /\ OptStr(Get(c, "title")) /\ OptStr(Get(c, "phone"))
    /\ (Get(c, "email") = None \/ IsEmailStr(Get(c, "email")))
ValidCriterion(c) == "criterion" \in DOMAIN c /\ IsStr(c["criterion"])

\* process_json.validate_extraction_json(ExSchema, payload)["ok"]; keys that
\* are no field of ExSchema (project_scope) are ignored
ValidExtraction(payload) ==
    /\ Get(payload, "document_type") \in DocumentTypes \cup {None}
    /\ \A f \in schema_str_fields : OptStr(Get(payload, f))
    /\ \A d \in Range(GetList(payload, "deadlines")) : ValidDeadline(d)
    /\ \A c \in Range(GetList(payload, "contacts")) : ValidContact(c)
    /\ \A c \in Range(GetList(payload, "evaluation_criteria")) : ValidCriterion(c)
    /\ \A f \in {"requirements", "keywords", "compliance_standards"} :
           \A x \in Range(GetList(payload, f)) : IsStr(x)

\* ExSchema.model_dump() of a valid payload; uuid is what the default_factory
\* of document_id produces
model_dump(payload, uuid) ==
    LET dl == GetList(payload, "deadlines")
        cs == GetList(payload, "contacts")
        ec == GetList(payload, "evaluation_criteria")
    IN  [f \in DOMAIN BASE_DEFAULTS(uuid) |->
            IF f = "document_id"
                THEN (IF f \in DOMAIN payload THEN payload[f] ELSE uuid)
            ELSE IF f = "deadlines"
                THEN [i \in 1..Len(dl) |->
                         [date |-> dl[i]["date"], purpose |-> Get(dl[i], "purpose")]]
            ELSE IF f = "contacts"
                THEN [i \in 1..Len(cs) |->
                         [name |-> cs[i]["name"], title |-> Get(cs[i], "title"),
                          email |-> Get(cs[i], "email"), phone |-> Get(cs[i], "phone")]]
            ELSE IF f = "evaluation_criteria"
                THEN [i \in 1..Len(ec) |-> [criterion |-> ec[i]["criterion"]]]
            ELSE IF f \in _LIST_FIELDS THEN GetList(payload, f)
            ELSE Get(payload, f)]

-----------------------------------------------------------------------------
(* Specification SpecSession: extractor.extract_entities_llm                *)

\* extractor.py:72
SESSION_RETRIES == 2

MaxChunks == 2
MaxDocs   == 2

\* the replies of the oracle in a session
SessionReplies == {TIMEOUT, Reply(PROSE), Reply(JSON_CY), Reply(JSON_JANE),
                   Reply(JSON_GLOBEX), Reply(JSON_TYPE_NUM), Reply(JSON_SCOPE)}

\* dict.pop(k, None)
Pop(d, k) == [x \in DOMAIN d \ {k} |-> d[x]]

InitSession == MergeIdle /\ RetryIdle /\ SessionIdle /\ SanitizeIdle

\* common.PREV_STATE: the order of the keys of a running state.  A merge
\* starts from a copy of the previous state and adds document_id at most,
\* which the loop pops again.
key_order ==
    <<"document_type", "document_title", "issue_date", "deadlines",
      "client_organization", "client_industry", "contacts", "project_scope",
      "contract_term", "submission_method", "evaluation_criteria",
      "pricing_structure", "requirements", "keywords", "compliance_standards",
      "document_id">>

\* dict.items(): the keys the dict holds, in their order
Keys(d) == SelectSeq(key_order, LAMBDA k : k \in DOMAIN d)

\* a variant of unresolved_fields: only a key holding None is unresolved
UnresolvedNullOnly(prev) ==
    SelectSeq(Keys(prev), LAMBDA k : ToString(prev[k]) = ToString(None))

\* process_json.py:68-74; the empty string and the empty list are both <<>>
\* (the values are compared as printed: a list of records is neither)
unresolved_fields(prev) ==
    SelectSeq(Keys(prev),
              LAMBDA k : ToString(prev[k]) \in {ToString(None), ToString(<<>>)})

\* ", ".join(keys)
RECURSIVE JoinKeys(_)
JoinKeys(keys) ==
    IF Len(keys) <= 1 THEN keys
    ELSE <<Head(keys), ", ">> \o JoinKeys(Tail(keys))

\* prompt.py:14-15: the text the hint starts with
HINT_HEAD == "UNRESOLVED_FIELDS (...): "

\* prompt.py:11-18: the three values USER_PROMPT.format puts into the
\* template; the hint as the list of the pieces it is concatenated from
build_user_prompt(prev, t, unresolved_hint) ==
    [prev_state |-> prev,
     hint |-> IF unresolved_hint # <<>>
              THEN <<HINT_HEAD>> \o JoinKeys(unresolved_hint) \o <<"\n\n">>
              ELSE <<>>,
     chunk_text |-> t]

\* extractor.py:46-48
StartSession ==
    /\ spc = "idle" /\ rpc = "idle"
    /\ spc' = "loop"
    /\ prev_state' = PREV_STATE
    \* PREV_STATE.copy() is a new dict
    /\ heap' = [heap EXCEPT !.objs = <<PREV_STATE>>, !.prev = 1]
    /\ results' = <<>>
    /\ UNCHANGED <<doc, taken, pre_merge, chunk_text, cleaned, validated,
                   outcome, oracle_calls, mvars, pvars, rvars>>

\* extractor.py:49: the outer loop takes the next document of pdfs
NextDocument ==
    /\ spc = "loop" /\ doc < MaxDocs
    /\ doc' = doc + 1
    /\ UNCHANGED <<spc, taken, prev_state, pre_merge, chunk_text, cleaned,
                   validated, outcome, results, oracle_calls, heap, mvars,
                   pvars, rvars>>

\* a variant of IsBlank: the text is not trimmed
IsBlankEmptyOnly(t) == t = <<>>

\* extractor.py:55: text.strip() == ""
IsBlank(t) == Strip(t) = <<>>

\* extractor.py:51-73: the next chunk of the document, up to the entry of
\* invoke_with_retries; a blank text (line 56) and a chunk without metadata
\* (IndexError at line 57, caught at line 90) end the iteration
TakeChunk(chunk) ==
    /\ spc = "loop" /\ doc >= 1 /\ taken < MaxChunks
    /\ \E ing \in {ingest_json_results_to_blob(chunk)} :
           /\ chunk_text' = ing.text
           /\ IF IsBlank(ing.text) \/ ing.metadatas = 0
              THEN /\ outcome' = IF IsBlank(ing.text) THEN "blank" ELSE "error"
                   /\ oracle_calls' = Append(oracle_calls, 0)
                   /\ UNCHANGED <<spc, rvars>>
              ELSE /\ outcome' = "invoking"
                   /\ spc' = "invoking"
                   /\ Enter(SESSION_RETRIES,
                            build_user_prompt(prev_state, ing.text,
                                              unresolved_fields(prev_state)))
                   /\ UNCHANGED oracle_calls
    /\ taken' = taken + 1
    /\ pre_merge' = prev_state
    /\ cleaned' = <<>> /\ validated' = <<>>
    /\ UNCHANGED <<doc, prev_state, results, heap, mvars, pvars>>

\* a variant of deepcopy: no copy is made, the result is the object itself
SameObject(objs, ref) == ref

\* process_entity.py:284-285, copy.deepcopy: the result is an object that
\* did not exist, and shares nothing with the one copied
deepcopy(objs, ref) == Len(objs) + 1

\* extractor.py:77-80 on the objects: clean_data is an object of its own;
\* filter_with_prev_backup writes into the copy it made of prev_clean
\* (process_entity.py:284-285) and returns it, the loop names it prev_state
\* and pops document_id from it
MergeObjects(h, payload, popped) ==
    LET objs1 == Append(h.objs, payload)
        m     == deepcopy(objs1, h.prev)
    IN  [objs |-> IF m > Len(objs1) THEN Append(objs1, popped)
                  ELSE [objs1 EXCEPT ![m] = popped],
         prev |-> m,
         arg |-> h.prev, arg0 |-> h.objs[h.prev],
         payload |-> Len(objs1), payload0 |-> payload]

\* extractor.py:75-92: the rest of the iteration, once invoke_with_retries
\* has returned
EndChunk ==
    /\ spc = "invoking" /\ rpc = "done"
    /\ spc' = "loop"
    /\ oracle_calls' = Append(oracle_calls, Len(calls))
    /\ rpc' = "idle" /\ attempt' = 0 /\ retries' = 0 /\ last_err' = NO_ERR
    /\ user_base' = <<>>
    /\ calls' = <<>> /\ sys_msgs' = <<>> /\ user_msgs' = <<>> /\ sleeps' = <<>>
    /\ ret' = <<>>
    /\ IF ret.data = <<>>
       THEN \* line 88
            /\ outcome' = "failed"
            /\ UNCHANGED <<prev_state, cleaned, validated, results, uuids, heap>>
       ELSE IF MergeRaises(ret.data[1], prev_state)
       THEN \* line 77 raises, line 90 catches
            /\ outcome' = "error"
            /\ UNCHANGED <<prev_state, cleaned, validated, results, uuids, heap>>
       ELSE \E merged \in {MergeWithFacts(ret.data[1], FactsOf(chunk_text), prev_state)} :
            \E popped \in {Pop(merged, "document_id")} :
                /\ cleaned' = <<merged>>
                \* lines 79-80: prev_state and cleaned are one object
                /\ prev_state' = popped
                /\ heap' = MergeObjects(heap, ret.data[1], popped)
                /\ validated' = <<popped>>
                /\ uuids' = uuids + 1
                /\ IF ValidExtraction(popped)
                   THEN /\ outcome' = "valid"
                        /\ results' = Append(results, model_dump(popped, Uuid(uuids + 1)))
                   ELSE /\ outcome' = "invalid"
                        /\ UNCHANGED results
    /\ UNCHANGED <<doc, taken, pre_merge, chunk_text, mvars, pvars>>

\* extractor.py:95
ReturnState ==
    /\ spc = "loop"
    /\ spc' = "returned"
    /\ UNCHANGED <<doc, taken, prev_state, pre_merge, chunk_text, cleaned,
                   validated, outcome, results, oracle_calls, heap, mvars,
                   pvars, rvars>>

NextSession ==
    \/ StartSession
    \/ NextDocument
    \/ \E chunk \in Chunks : TakeChunk(chunk)
    \/ (spc = "invoking" /\ \E reply \in SessionReplies : Attempt(reply))
    \/ (spc = "invoking" /\ ReturnFailure)
    \/ EndChunk
    \/ ReturnState

SpecSession == InitSession /\ [][NextSession]_vars
-----------------------------------------------------------------------------
(* Specification SpecSanitize: process_entity.sanitize_llm_extraction on a  *)
(* raw dict, and merges of what it returned                                 *)

\* a dict with the one key f
OneField(f, v) == [k \in {f} |-> v]

INT_5 == <<"int", "5">>
BLANK == <<" ", " ">>
PLUS_PHONE == <<"+","5","5","5","0","1","0","0">>
JANE_ANGLE ==
    <<"J","a","n","e"," ","D","o","e"," ","<","j","a","n","e","@","x",".","c","o","m",">">>

NA_TOKEN   == <<"N","/","A">>
NONE_TOKEN == <<"n","o","n","e">>
DASH       == <<"-">>
NOT_MAIL   == <<"j","a","n","e","@","x">>
DIGIT_MAIL == <<"4","2","@","x",".","c","o","m">>

\* raw values of requirements, keywords and compliance_standards
RawStrLists ==
    {RawNull, RawScalar(ISO9001), RawScalar(BLANK), RawScalar(INT_5),
     RawList(<<ISO9001_WS, BLANK, ISO9001, INT_5, None>>)}

\* raw values of deadlines
RawDeadlines ==
    {RawNull, RawScalar(ISO_DATE), RawScalar(INT_5),
     RawList(<<[date |-> ISO_DATE, kind |-> DUE], [date |-> BLANK],
               [kind |-> DUE], [date |-> None], [date |-> DMY_DATE]>>)}

\* raw values of evaluation_criteria
RawCriteria ==
    {RawNull, RawScalar(TERMS), RawScalar(INT_5),
     RawList(<<[criterion |-> TERMS], [criterion |-> BLANK], [weight |-> INT_5],
               [criterion |-> INT_5]>>)}

\* raw values of contacts: no contact, one object, and lists whose entries
\* share an email, a name and a phone, or a name
RawContacts ==
    {RawNull, RawScalar(Contact(JANE, CEO, JANE_MAIL, PHONE)),
     RawList(<<Contact(JANE, CEO, JANE_MAIL_UPPER, None),
               Contact(BO_LI, None, JANE_ANGLE, PHONE),
               Contact(None, None, None, None),
               Contact(JANE_ANGLE, None, None, None)>>),
     RawList(<<Contact(CY, CEO, None, PHONE),
               Contact(BO_LI, None, None, PHONE),
               Contact(Lower(CY), None, None, PHONE_DIGITS),
               [name |-> CY]>>),
     RawList(<<Contact(BO_LI, None, BLANK, None), [name |-> Lower(BO_LI), title |-> CEO],
               [phone |-> PHONE], [phone |-> PHONE_DIGITS, title |-> CEO],
               Contact(BO_LI, None, JANE_MAIL, None)>>),
     RawList(<<Contact(CY, None, None, PHONE_DIGITS),
               Contact(CY, CEO, None, PLUS_PHONE)>>),
     \* missing tokens, an invalid email, and emails without a name
     RawList(<<Contact(NA_TOKEN, CEO, NONE_TOKEN, DASH),
               [name |-> NONE_TOKEN, email |-> NOT_MAIL],
               Contact(None, CEO, JANE_MAIL_UPPER, None),
               Contact(NA_TOKEN, None, NOT_MAIL, PHONE),
               Contact(DASH, None, DIGIT_MAIL, DASH)>>)}

\* an object with scalars and every list field
RawFull ==
    [document_type |-> DOC_RFP, document_title |-> BID, project_scope |-> TERMS,
     client_organization |-> GLOBEX, issue_date |-> ISO_DATE,
     deadlines |-> RawList(<<[date |-> ISO_DATE]>>),
     contacts |-> RawList(<<Contact(JANE, None, JANE_MAIL, None)>>),
     evaluation_criteria |-> RawList(<<[criterion |-> TERMS]>>),
     requirements |-> RawList(<<ISO9001>>), keywords |-> RawScalar(GLOBEX),
     compliance_standards |-> RawNull]

\* an object with a numeric title, its own identifier and a key no schema
\* names
RawOdd ==
    [document_title |-> INT_5, document_id |-> UUID2, project_scope |-> TERMS,
     technologies |-> RawList(<<ACME>>)]

\* the dicts ensure_defaults and sanitize_llm_extraction are given: no key,
\* one list field in each of its shapes, every field
RawInputs ==
    {<<>>, RawFull, RawOdd}
    \cup {OneField(f, v) : f \in {"requirements", "keywords", "compliance_standards"},
                           v \in RawStrLists}
    \cup {OneField("deadlines", v) : v \in RawDeadlines}
    \cup {OneField("evaluation_criteria", v) : v \in RawCriteria}
    \cup {OneField("contacts", v) : v \in RawContacts}

InitSanitize ==
    /\ raw \in RawInputs /\ filled = <<>> /\ sane = <<>>
    /\ state \in InitStates
    /\ start = state /\ before = state /\ cand = <<>> /\ text = <<>> /\ merges = 0
    /\ RetryIdle /\ SessionIdle

\* data = sanitize_llm_extraction(raw)
Sanitize ==
    /\ sane = <<>>
    /\ sane' = <<sanitize_llm_extraction(raw)>>
    /\ UNCHANGED <<raw, filled, mvars, rvars, svars>>

\* data = ensure_defaults(raw, ExSchema)
EnsureDefaults ==
    /\ filled = <<>>
    /\ filled' = <<ensure_defaults(raw, UUID1)>>
    /\ UNCHANGED <<raw, sane, mvars, rvars, svars>>

\* filter_with_prev_backup(data, t, prev_clean=state)
MergeSane(t) == sane # <<>> /\ Merge(sane[1], t)

NextSanitize == Sanitize \/ EnsureDefaults \/ \E t \in Texts : MergeSane(t)

SpecSanitize == InitSanitize /\ [][NextSanitize]_vars

-----------------------------------------------------------------------------
(* Claims about one merge and about sequences of merges (Spec)              *)

Merged == merges > 0

non_date_scalars ==
    {"document_title", "client_organization", "client_industry", "project_scope",
     "contract_term", "submission_method", "pricing_structure"}

\* field f is the same in states a and b: absent in both, or the same value
SameField(a, b, f) ==
    /\ (f \in DOMAIN a) = (f \in DOMAIN b)
    /\ Get(a, f) = Get(b, f)

\* C2: a candidate value of a non-date scalar field whose normalised form is
\* not a substring of the normalised chunk text leaves the field as it was in
\* the previous state.
C2_HallucinatedScalarKept ==
    Merged =>
        \A f \in non_date_scalars :
            LET v == Get(cand, f)
            IN  (v # None /\ ~IsSubstring(_norm(Str(v)), _norm(text)))
                    => SameField(state, before, f)

\* C2 witness (Scenario B): the previous state holds "Acme", the candidate
\* "Globex Corp", the text names no organisation, and "Acme" is retained.
C2_Witness ==
    /\ Merged /\ text = TextA
    /\ Get(cand, "client_organization") = GLOBEX
    /\ Get(before, "client_organization") = ACME
    /\ Get(state, "client_organization") = ACME

Contacts(st) == Range(GetList(st, "contacts"))

\* C3: a candidate contact whose email is not among the emails of
\* the text is in the merged contact list only if it was in the previous one,
\* also when its phone, name or title occur in the text.
C3_UnseenEmailNeverAdmitted ==
    Merged =>
        \A c \in Contacts(cand) :
            (ContactEmail(c) # <<>> /\ ContactEmail(c) \notin _emails_in_text(text))
                => \A x \in Contacts(state) :
                       Get(x, "email") = ContactEmail(c) => x \in Contacts(before)

\* the record of the previous state that contact x continues, if any
Previous(x) == {p \in Contacts(before) : _canon_contact_key(p) = _canon_contact_key(x)}

\* attribute a of contact x is new in the merged state
NewAttr(x, a) ==
    /\ Get(x, a) # None
    /\ \A p \in Previous(x) : Get(p, a) # Get(x, a)

\* value v of contact attribute a is literally evidenced in the text
AttrEvidenced(a, v) ==
    IF a = "email" THEN v \in _emails_in_text(text)
    ELSE IF a = "phone" THEN v \in _phones_in_text(text)
    ELSE _contains_literal(text, v)

\* C4: every value of the merged state that the previous state
\* did not hold is evidenced in the chunk text: changed scalars, added list
\* items, and each new name, title, email and phone of a contact.
C4_EveryNewValueEvidenced ==
    Merged =>
        /\ \A f \in non_date_scalars :
               SameField(state, before, f) \/ _contains_literal(text, Str(state[f]))
        /\ SameField(state, before, "issue_date")
               \/ _date_present_in_text(state["issue_date"], text)
        /\ \A d \in Range(GetList(state, "deadlines")) :
               d \in Range(GetList(before, "deadlines"))
                   \/ _date_present_in_text(d["date"], text)
        /\ \A f \in {"requirements", "keywords", "compliance_standards"} :
               \A it \in Range(GetList(state, f)) :
                   it \in Range(GetList(before, f)) \/ _contains_literal(text, it)
        /\ \A it \in Range(GetList(state, "evaluation_criteria")) :
               it \in Range(GetList(before, "evaluation_criteria"))
                   \/ _contains_literal(text, it["criterion"])
        /\ \A x \in Contacts(state) :
               x \in Contacts(before)
                   \/ \A a \in {"name", "title", "email", "phone"} :
                          NewAttr(x, a) => AttrEvidenced(a, x[a])

\* C5: merging the same candidate and text into the result of
\* the merge changes nothing.
C5_MergeIdempotent ==
    Merged => filter_with_prev_backup(cand, text, state) = state

HasId(st) == "document_id" \in DOMAIN st

\* C7: a merge keeps the document_id of the previous state whatever the
\* candidate carries, and adopts the candidate's when the previous state has
\* none; this holds for every chunk text.
C7_DocumentIdCarriedOrAdopted ==
    Merged =>
        /\ HasId(before) => (HasId(state) /\ state["document_id"] = before["document_id"])
        /\ (~HasId(before) /\ HasId(cand))
               => (HasId(state) /\ state["document_id"] = cand["document_id"])

\* C7 witness: the previous state holds u1, the candidate carries u2, and the
\* merged state holds u1.
C7_Witness ==
    /\ Merged /\ HasId(before) /\ HasId(cand)
    /\ before["document_id"] = UUID1 /\ cand["document_id"] = UUID2
    /\ state["document_id"] = UUID1

\* the dedup keys of the entries of list field f of state st
EntryKeys(st, f) ==
    IF f = "contacts" THEN {_canon_contact_key(c) : c \in Contacts(st)}
    ELSE Range(GetList(st, f))

\* C8: in a sequence of merges from the empty state, every entry
\* of every list field before a merge is present after it (contacts by dedup
\* key) and no list gets shorter.
C8_ListsAppendOnly ==
    (Merged /\ start = PREV_STATE) =>
        \A i \in 1..Len(list_fields) :
            LET f == list_fields[i]
            IN  /\ EntryKeys(before, f) \subseteq EntryKeys(state, f)
                /\ Len(GetList(state, f)) >= Len(GetList(before, f))

\* the candidate value of scalar field f passes the gate of the chunk text:
\* it is non-empty and literally contained in the text (issue_date: a date
\* of the text)
PassesGate(f, v, t) ==
    /\ v # None /\ v # <<>>
    /\ IF f = "issue_date" THEN _date_present_in_text(v, t)
       ELSE IsSubstring(_norm(Str(v)), _norm(t))

\* C14: after a merge every scalar field holds the candidate's value when
\* that value passes the gate of the chunk text, and is as it was before the
\* merge otherwise; so, along a sequence of merges from the empty state, a
\* field holds the candidate of the latest chunk that passed the gate and is
\* unset when none did.
C14_NewestEvidencedScalarWins ==
    Merged =>
        \A i \in 1..Len(scalar_fields) :
            LET f == scalar_fields[i]
            IN  IF PassesGate(f, Get(cand, f), text)
                THEN f \in DOMAIN state /\ state[f] = Get(cand, f)
                ELSE SameField(state, before, f)

\* C14 witness (Scenario C): the previous state holds "Acme", the text names
\* "Globex Corp", the candidate holds it, and the merged state holds it.
C14_Witness ==
    /\ Merged /\ text = TextC
    /\ Get(before, "client_organization") = ACME
    /\ Get(cand, "client_organization") = GLOBEX
    /\ Get(state, "client_organization") = GLOBEX
FromEmpty == Merged /\ start = PREV_STATE

Deadlines(st) == GetList(st, "deadlines")

\* deadlines a and b have the same date and the same kind (an absent or empty
\* kind is no kind)
SameDateKind(a, b) ==
    /\ Get(a, "date") = Get(b, "date")
    /\ (IF Truthy(Get(a, "kind")) THEN a["kind"] ELSE None)
           = (IF Truthy(Get(b, "kind")) THEN b["kind"] ELSE None)

\* C15: in a state reached from the empty state no two deadline entries have
\* the same (date, kind); every candidate deadline whose date is in the chunk
\* text has exactly one entry with its (date, kind), so that equal dates
\* without kind share one entry and equal dates with different kinds have
\* one entry each.
C15_DeadlinesUniqueByDateKind ==
    FromEmpty =>
        /\ \A i, j \in 1..Len(Deadlines(state)) :
               i # j => ~SameDateKind(Deadlines(state)[i], Deadlines(state)[j])
        /\ \A c \in Range(Deadlines(cand)) :
               _date_present_in_text(c["date"], text) =>
                   Cardinality({i \in 1..Len(Deadlines(state)) :
                                   SameDateKind(Deadlines(state)[i], c)}) = 1

\* C15 witness: the candidate holds one date five times, twice without kind,
\* once with an empty kind and with two different kinds; the merged state
\* holds three entries.
C15_Witness ==
    /\ FromEmpty /\ merges = 1 /\ cand = CandF /\ text = TextA
    /\ Len(Deadlines(cand)) = 5
    /\ Deadlines(state) = <<[date |-> ISO_DATE], [date |-> ISO_DATE, kind |-> DUE],
                            [date |-> ISO_DATE, kind |-> OPEN]>>
\* the texts of the items of list field f of state st, in order
ItemTexts(st, f) ==
    LET l == GetList(st, f)
    IN  [i \in 1..Len(l) |->
            IF f = "evaluation_criteria" THEN Get(l[i], "criterion") ELSE l[i]]

text_list_fields ==
    {"requirements", "keywords", "compliance_standards", "evaluation_criteria"}

\* C16: in a state reached from the empty state, no two items of
\* requirements, keywords, compliance_standards or evaluation_criteria have
\* the same normalised text (trimmed, whitespace collapsed, lower case).
C16_TextListsUniqueByNorm ==
    FromEmpty =>
        \A f \in text_list_fields :
            \A i, j \in 1..Len(ItemTexts(state, f)) :
                i # j => Lower(Strip(WsSub(ItemTexts(state, f)[i])))
                            # Lower(Strip(WsSub(ItemTexts(state, f)[j])))

\* C16 witness (Scenario E): the first merge has admitted "iso  9001" (the
\* candidate held "ISO 9001" too) and "other terms"; the second candidate
\* holds "other terms" and "Other  TERMS", and nothing is added.
C16_Witness ==
    /\ FromEmpty /\ merges = 2 /\ text = TextC /\ cand = CandF
    /\ before["requirements"] = <<ISO9001_WS>>
    /\ state["requirements"] = <<ISO9001_WS>>
    /\ before["evaluation_criteria"] = <<[criterion |-> TERMS]>>
    /\ state["evaluation_criteria"] = <<[criterion |-> TERMS]>>
\* the lowercased email a stored contact holds, "" when it holds none
StoredEmail(c) == Lower(OrEmpty(Get(c, "email")))

\* C17: in a state reached from the empty state, no two contacts hold the
\* same lowercased email, and no two contacts without email hold the same
\* (normalised name, digits-only phone).
C17_ContactsUniqueByKey ==
    FromEmpty =>
        \A i, j \in 1..Len(GetList(state, "contacts")) :
            LET a == state["contacts"][i]
                b == state["contacts"][j]
            IN  i # j =>
                    /\ StoredEmail(a) # <<>> => StoredEmail(a) # StoredEmail(b)
                    /\ (StoredEmail(a) = <<>> /\ StoredEmail(b) = <<>>) =>
                           <<Lower(Strip(OrEmpty(Get(a, "name")))),
                             DigitsOnly(OrEmpty(Get(a, "phone")))>>
                         # <<Lower(Strip(OrEmpty(Get(b, "name")))),
                             DigitsOnly(OrEmpty(Get(b, "phone")))>>
\* the fixed tokens of a document type; for Other, the word "other"
GateTokens(dt) ==
    IF dt = DOC_OTHER THEN {Lower(DOC_OTHER)} ELSE TypeTokens(dt)

\* C18: a merge changes document_type only to a candidate that is one of
\* RFP, RFI, RFQ, Sources Sought, Other and has one of its tokens in the
\* normalised chunk text; otherwise the previous value is kept.
C18_DocumentTypeGate ==
    Merged =>
        \/ SameField(state, before, "document_type")
        \/ /\ Get(cand, "document_type") \in DocumentTypes
           /\ Get(state, "document_type") = Get(cand, "document_type")
           /\ \E tok \in GateTokens(Get(cand, "document_type")) :
                  IsSubstring(tok, _norm(text))
\* candidate contact c fails both gates of chunk text t: its email is not
\* among the emails of t, and its digits-only phone is shorter than 7 digits
\* or not among the phone numbers of t
FailsBothGates(c, t) ==
    /\ ContactEmail(c) \notin _emails_in_text(t)
    /\ \/ Len(ContactPhone(c)) < 7
       \/ ContactPhone(c) \notin _phones_in_text(t)

\* C19: when the candidate's contacts all fail both gates, the merged contact
\* list is the previous contact list.
C19_UngatedContactChangesNothing ==
    (Merged /\ GetList(cand, "contacts") # <<>>
            /\ \A c \in Contacts(cand) : FailsBothGates(c, text))
        => GetList(state, "contacts") = GetList(before, "contacts")
\* the indexes of the previous contacts that are the first of their key
FirstOfKey(prev) ==
    {i \in 1..Len(prev) :
        \A j \in 1..(i - 1) : _canon_contact_key(prev[j]) # _canon_contact_key(prev[i])}

\* the position of key k among the keys of the previous contacts
KeyPosition(prev, k) ==
    Cardinality({i \in FirstOfKey(prev) :
        \E j \in 1..Len(prev) : j >= i /\ _canon_contact_key(prev[j]) = k
                                 /\ \A h \in 1..(j - 1) : _canon_contact_key(prev[h]) # k})

\* the record the previous contacts hold for key k (the last, if several)
HeldFor(prev, k) ==
    prev[CHOOSE i \in 1..Len(prev) :
            /\ _canon_contact_key(prev[i]) = k
            /\ \A j \in (i + 1)..Len(prev) : _canon_contact_key(prev[j]) # k]

\* the indexes of the candidate contacts that are admitted with key k and
\* whose attribute a (name or title) is literally in the chunk text
Upgrading(cs, k, a, t) ==
    {i \in 1..Len(cs) :
        /\ ~FailsBothGates(cs[i], t)
        /\ AdmissionKey(cs[i]) = k
        /\ Strip(OrEmpty(Get(cs[i], a))) # <<>>
        /\ _contains_literal(t, Strip(OrEmpty(Get(cs[i], a))))}

\* the value of attribute a after the upgrades of key k: the one of the last
\* upgrading candidate, the previous one when there is none
Upgraded(prev, cs, k, a, t) ==
    LET up == Upgrading(cs, k, a, t)
    IN  IF up = {} THEN Get(HeldFor(prev, k), a)
        ELSE Strip(cs[CHOOSE i \in up : \A j \in up : j <= i][a])

\* C20: when an admitted candidate contact has the key of a previous
\* contact, the contact at the position of that key holds the candidate's
\* name (title) if that name (title) is literally in the chunk text and the
\* previous name (title) otherwise, and the merged list holds one entry for
\* every key of the previous contacts and of the admitted candidates.
C20_ContactUpgradedInPlace ==
    Merged =>
        LET prev == GetList(before, "contacts")
            cs   == GetList(cand, "contacts")
            out  == GetList(state, "contacts")
            adm  == {i \in 1..Len(cs) : ~FailsBothGates(cs[i], text)}
            pk   == {_canon_contact_key(prev[i]) : i \in 1..Len(prev)}
        IN  /\ Len(out) = Cardinality(pk \cup {AdmissionKey(cs[i]) : i \in adm})
            /\ \A i \in adm :
                   AdmissionKey(cs[i]) \in pk =>
                       LET k == AdmissionKey(cs[i])
                           r == out[KeyPosition(prev, k)]
                       IN  /\ r["name"] = Upgraded(prev, cs, k, "name", text)
                           /\ r["title"] = Upgraded(prev, cs, k, "title", text)

\* C20 witness: the state holds one contact for jane@x.com without name and
\* title; the candidate for that email has the name "Jane Doe", which the
\* text holds, and the title "CEO", which it does not; the contact gets the
\* name, keeps its title and stays the only entry.
C20_Witness ==
    /\ FromEmpty /\ merges = 2 /\ text = TextA /\ cand = CandC
    /\ before["contacts"] = <<Contact(None, None, JANE_MAIL, PHONE_DIGITS)>>
    /\ Len(state["contacts"]) = 1
    /\ state["contacts"][1]["name"] = JANE
    /\ state["contacts"][1]["title"] = None

\* the lowercased address of a candidate contact's email
LowerEmail(c) == Lower(ParseAddr(Strip(OrEmpty(Get(c, "email")))))

\* candidate contact cs[i] is new by its email: the text holds the email up
\* to letter case, no previous contact holds it, and no other contact of the
\* candidate has it
NewByEmail(cs, i) ==
    /\ LowerEmail(cs[i]) # <<>>
    /\ LowerEmail(cs[i]) \in _emails_in_text(text)
    /\ \A p \in Contacts(before) : StoredEmail(p) # LowerEmail(cs[i])
    /\ \A j \in 1..Len(cs) : j # i => LowerEmail(cs[j]) # LowerEmail(cs[i])

\* C21: a candidate contact that is new by its email is stored once, with
\* the email in lower case, and with title and phone None when the candidate
\* gives none; a candidate deadline without kind whose date is in the text,
\* given once and not held before, is stored once as a record of its date
\* alone.
C21_AdmittedShapes ==
    Merged =>
        /\ \A i \in 1..Len(GetList(cand, "contacts")) :
               LET c == cand["contacts"][i]
                   stored == {j \in 1..Len(GetList(state, "contacts")) :
                                 Get(state["contacts"][j], "email") = LowerEmail(c)}
               IN  NewByEmail(cand["contacts"], i) =>
                       /\ Cardinality(stored) = 1
                       /\ \A j \in stored :
                              /\ OrEmpty(Get(c, "title")) = <<>>
                                     => state["contacts"][j]["title"] = None
                              /\ OrEmpty(Get(c, "phone")) = <<>>
                                     => state["contacts"][j]["phone"] = None
        /\ \A i \in 1..Len(Deadlines(cand)) :
               LET d == Deadlines(cand)[i]
               IN  (/\ ~Truthy(Get(d, "kind"))
                    /\ _date_present_in_text(d["date"], text)
                    /\ \A p \in Range(Deadlines(before)) : ~SameDateKind(p, d)
                    /\ \A j \in 1..Len(Deadlines(cand)) :
                           j # i => ~SameDateKind(Deadlines(cand)[j], d))
                   => Cardinality({j \in 1..Len(Deadlines(state)) :
                          Deadlines(state)[j] = [date |-> d["date"]]}) = 1

\* C21 witness (Scenario A): from the empty state, the candidate with the
\* deadline 2025-09-29 and the contact Jane Doe, JANE@X.COM gives one
\* deadline {date} and one contact with jane@x.com and no title and phone.
C21_Witness ==
    /\ FromEmpty /\ merges = 1 /\ cand = CandA /\ text = TextA
    /\ state["deadlines"] = <<[date |-> ISO_DATE]>>
    /\ state["contacts"] = <<Contact(JANE, None, JANE_MAIL, None)>>


\* C27: every contact of a state a merge returns has a name that is a
\* non-empty string, also a contact admitted through the email or phone gate
\* whose candidate name is not in the chunk.
C27_ContactsHaveNames ==
    Merged =>
        \A c \in Contacts(state) :
            "name" \in DOMAIN c /\ IsStr(c["name"]) /\ c["name"] # <<>>


\* the list fields other than contacts
union_fields ==
    {"deadlines", "evaluation_criteria", "requirements", "keywords",
     "compliance_standards"}

\* a is b with some of its entries left out
RECURSIVE IsSubsequence(_, _)
IsSubsequence(a, b) ==
    IF a = <<>> THEN TRUE
    ELSE IF b = <<>> THEN FALSE
    ELSE IF Head(a) = Head(b) THEN IsSubsequence(Tail(a), Tail(b))
    ELSE IsSubsequence(a, Tail(b))

\* the entries of the candidate for field f, as a merge stores them: a
\* deadline is its date and, when it has one, its kind
CandidateEntries(f) ==
    LET cs == GetList(cand, f)
    IN  IF f = "deadlines"
        THEN [i \in 1..Len(cs) |->
                 IF KindOf(cs[i]) # None
                 THEN [date |-> cs[i]["date"], kind |-> KindOf(cs[i])]
                 ELSE [date |-> cs[i]["date"]]]
        ELSE cs

\* C34: order preservation.  For deadlines, evaluation_criteria,
\* requirements, keywords and compliance_standards the list of the previous
\* state is a prefix of the merged list (no entry is reordered, rewritten or
\* removed), and the entries after it are entries of the candidate, in
\* candidate order and as the candidate wrote them.
C34_PreviousListIsPrefix ==
    Merged =>
        \A f \in union_fields :
            \E p \in {GetList(before, f)} :
                /\ Len(p) <= Len(state[f])
                /\ SubSeq(state[f], 1, Len(p)) = p
                /\ IsSubsequence(SubSeq(state[f], Len(p) + 1, Len(state[f])),
                                 CandidateEntries(f))

\* the keywords held one entry; the candidate's two new ones were appended in
\* its order and casing, its duplicate of the held requirement was not
C34_Witness ==
    /\ merges = 2 /\ cand = CandH /\ text = TextC
    /\ before["keywords"] = <<GLOBEX>>
    /\ state["keywords"] = <<GLOBEX, TERMS_CAPS, ISO9001>>
    /\ before["requirements"] = <<ISO9001>>
    /\ state["requirements"] = <<ISO9001, TERMS>>

-----------------------------------------------------------------------------
(* The retry controller                                                     *)

Failed(reply) == ~AttemptOutcome(reply, Uuid(1)).ok
Returned == rpc = "done"

\* C9: the oracle is called at most retries+1 times; a failed attempt that is
\* not the last one is followed by one more attempt (the call is not over
\* while attempts remain after a failure, and the next step is an oracle
\* call); when every one of the retries+1 attempts has failed the call
\* returns (None, last_err), last_err being the message of the final attempt.
C9_BoundedRetries ==
    /\ Len(calls) <= retries + 1
    /\ (rpc = "loop" /\ calls # <<>>) => Failed(calls[Len(calls)])
    /\ (Returned /\ calls # <<>> /\ Failed(calls[Len(calls)])) =>
           /\ Len(calls) = retries + 1
           /\ \A i \in 1..Len(calls) : Failed(calls[i])
           /\ ret = [data |-> <<>>,
                     err |-> AttemptOutcome(calls[Len(calls)], Uuid(1)).err]

C9_Witness ==
    /\ Returned /\ retries = 2 /\ Len(calls) = 3
    /\ calls[1] = TIMEOUT /\ calls[2] = Reply(PROSE) /\ calls[3] = Reply(BAD_JSON)
    /\ ret.data = <<>>

\* C10: when attempts 1..k-1 fail and the reply of attempt k is a valid JSON
\* object, the call returns (record, None) with record the sanitized record
\* of reply k alone, and the oracle is not called after attempt k.
C10_FirstValidReplyReturned ==
    \A k \in 1..Len(calls) :
        (~Failed(calls[k]) /\ \A i \in 1..(k - 1) : Failed(calls[i])) =>
            /\ Len(calls) = k
            /\ Returned
            /\ ret = [data |-> <<AttemptOutcome(calls[k], Uuid(uuids)).data>>,
                      err |-> NO_ERR]

C10_Witness ==
    /\ Returned /\ Len(calls) = 3
    /\ calls[1] = Reply(PROSE) /\ calls[2] = Reply(PROSE)
    /\ calls[3] = Reply(JSON_TITLE)
    /\ ret.err = NO_ERR /\ ret.data # <<>>
    /\ ret.data[1]["document_title"] = BID

\* the reply parses to a JSON object that model.ExSchema rejects: a scalar
\* field that is not a str, or a document_type outside the Literal
SchemaViolation(reply) ==
    /\ reply.kind = "text" /\ ~ExtractRaises(reply.text)
    /\ LET parsed == json_loads(extract_json_between_braces(reply.text))
       IN  /\ parsed.ok
           /\ \/ \E f \in schema_str_fields : ~OptStr(Get(parsed.data, f))
              \/ Get(parsed.data, "document_type") \notin DocumentTypes \cup {None}

\* C11: an attempt whose reply is valid JSON that violates the schema is a
\* failed attempt: the call has not returned after it while attempts remain,
\* and the call never returns that reply's record as a success.
C11_SchemaViolationRetried ==
    \A k \in 1..Len(calls) :
        SchemaViolation(calls[k]) =>
            /\ Failed(calls[k])
            /\ (Returned /\ k = Len(calls)) => ret.data = <<>>


\* the last_err a failed attempt with this reply leaves
ErrorOf(reply) == AttemptOutcome(reply, Uuid(1)).err

\* C29: error feedback.  The system message of the first attempt is the base
\* system prompt; the system message of attempt n > 1 is the base system
\* prompt followed by one addendum, built from the error of attempt n-1 only;
\* the user message is the same on every attempt.
C29_ErrorFeedback ==
    /\ Len(sys_msgs) = Len(calls) /\ Len(user_msgs) = Len(calls)
    /\ \A n \in 1..Len(calls) :
           /\ n = 1 => sys_msgs[n] = SYS_BASE
           /\ n > 1 => /\ sys_msgs[n] = SYS_BASE \o _error_addendum(ErrorOf(calls[n - 1]))
                       /\ sys_msgs[n] # SYS_BASE
           /\ user_msgs[n] = user_msgs[1]

\* three attempts: the third system message holds the error of the second
\* attempt and not the error of the first
C29_Witness ==
    /\ Len(calls) = 3 /\ calls[1] = TIMEOUT /\ calls[2] = Reply(BAD_JSON)
    /\ sys_msgs[1] = SYS_BASE
    /\ sys_msgs[2] = SYS_BASE \o _error_addendum("Unexpected error: TimeoutError: timed out")
    /\ sys_msgs[3] = SYS_BASE \o _error_addendum(
           "JSON decoding error at pos 1: Expecting property name enclosed in double quotes")
    /\ user_msgs = <<USER_BASE, USER_BASE, USER_BASE>>

\* the number of failed attempts so far
FailedAttempts == Cardinality({i \in 1..Len(calls) : Failed(calls[i])})

\* C30: backoff schedule.  The sleeps so far are backoff * k after the k-th
\* failed attempt, for k up to retries: none before the first attempt, none
\* after a successful attempt, none after the failure of the last attempt.
C30_BackoffSchedule ==
    /\ FailedAttempts <= retries =>
           sleeps = [k \in 1..FailedAttempts |-> BACKOFF_MS * k]
    /\ FailedAttempts > retries =>
           sleeps = [k \in 1..retries |-> BACKOFF_MS * k]
    \* an attempt that follows a failure comes after the sleep
    /\ (rpc = "loop" /\ Len(calls) <= retries) => Len(sleeps) = Len(calls)

\* the first two attempts failed and were followed by sleeps of 0.6 s and
\* 1.2 s; the third succeeded and was followed by none
C30_Witness ==
    /\ Returned /\ retries = 2 /\ Len(calls) = 3
    /\ Failed(calls[1]) /\ Failed(calls[2]) /\ ~Failed(calls[3])
    /\ sleeps = <<600, 1200>>


\* r is the part of t from its first "{" to its last "}", both included
IsBraceSpan(r, t) ==
    \E a, b \in 1..Len(t) :
        /\ a <= b /\ r = SubSeq(t, a, b)
        /\ t[a] = "{" /\ \A i \in 1..(a - 1) : t[i] # "{"
        /\ t[b] = "}" /\ \A i \in (b + 1)..Len(t) : t[i] # "}"

HasChar(t, c) == \E i \in 1..Len(t) : t[i] = c
\* the last "}" of t precedes its first "{"
BracesReversed(t) ==
    /\ HasChar(t, "{") /\ HasChar(t, "}")
    /\ \A i, j \in 1..Len(t) : (t[i] = "{" /\ t[j] = "}") => j < i

\* the texts the oracle has returned so far
ReplyTexts == {calls[k].text : k \in {i \in 1..Len(calls) : calls[i].kind = "text"}}

\* C31: JSON span extraction.  For a text with a "{" and a later "}" the span
\* is the part from the first "{" to the last "}", so prose around one JSON
\* object is ignored; a text without "{" or without "}" makes the extraction
\* raise; the span of a text whose last "}" precedes its first "{" does not
\* parse; an attempt with either kind of text is a failed attempt.
C31_JsonSpanExtraction ==
    /\ \A t \in ReplyTexts :
           /\ (HasChar(t, "{") /\ HasChar(t, "}") /\ ~BracesReversed(t)) =>
                  IsBraceSpan(extract_json_between_braces(t), t)
           /\ (~HasChar(t, "{") \/ ~HasChar(t, "}")) <=> ExtractRaises(t)
           /\ BracesReversed(t) => ~json_loads(extract_json_between_braces(t)).ok
    /\ (calls # <<>> /\ calls[Len(calls)].kind = "text") =>
           \E t \in {calls[Len(calls)].text} :
               /\ (~HasChar(t, "{") \/ ~HasChar(t, "}")) =>
                      /\ attempt = Len(calls) /\ (Returned => ret.data = <<>>)
                      /\ last_err = "Unexpected error: ValueError: Error extracting JSON: "
                                    \o "No valid JSON object found in the text."
               /\ BracesReversed(t) =>
                      /\ attempt = Len(calls) /\ (Returned => ret.data = <<>>)
                      /\ last_err = "JSON decoding error at pos 0: Expecting value"
               /\ t = JSON_TITLE =>
                      /\ Returned /\ ret.data # <<>>
                      /\ ret.data[1]["document_title"] = BID

\* a reversed pair of braces and an unclosed brace were failed attempts; the
\* object wrapped in prose was parsed on the third
C31_Witness ==
    /\ Returned /\ Len(calls) = 3 /\ attempt = 2
    /\ calls[1] = Reply(REVERSED) /\ calls[2] = Reply(UNCLOSED)
    /\ calls[3] = Reply(JSON_TITLE)
    /\ ret.data # <<>> /\ ret.data[1]["document_title"] = BID


\* the object json.loads gave for the reply of the last attempt
LastParsed == json_loads(extract_json_between_braces(calls[Len(calls)].text)).data

\* the raw deadlines of the reply of the last attempt
LastRawDeadlines ==
    IF "deadlines" \in DOMAIN LastParsed /\ LastParsed["deadlines"].kind = "list"
    THEN LastParsed["deadlines"].items ELSE <<>>

\* C33: every record invoke_with_retries returns as a success has a deadlines
\* list whose dates all contain a date literal; the deadlines of the reply
\* whose date holds none are removed, the others keep their order.
C33_DeadlinesHoldDateLiterals ==
    (Returned /\ ret.data # <<>>) =>
        /\ \A d \in Range(ret.data[1]["deadlines"]) : contains_date(d["date"])
        /\ \E rd \in {LastRawDeadlines} :
               ret.data[1]["deadlines"] =
                   Filter([i \in 1..Len(rd) |-> [date |-> Strip(rd[i]["date"])]],
                          {i \in 1..Len(rd) : contains_date(rd[i]["date"])}, 1)

\* of four deadlines the two whose date is no date literal were removed
C33_Witness ==
    /\ Returned /\ calls = <<Reply(JSON_DATES)>> /\ ret.data # <<>>
    /\ ret.data[1]["deadlines"] = <<[date |-> ISO_DATE], [date |-> DMY_DATE]>>

-----------------------------------------------------------------------------
(* The session                                                              *)

AtChunkBoundary == spc \in {"loop", "returned"}

\* C1: when the merged state of a chunk fails validation, the running state
\* used for the next chunk and returned at the end is the state from before
\* that chunk's merge.
C1_InvalidMergeDiscarded ==
    (AtChunkBoundary /\ outcome = "invalid") => prev_state = pre_merge

\* C6: once the running state holds a document_id (the merged state that
\* line 79 makes the running state holds one), the running state after the
\* chunk and the state passed to validation hold the same document_id, and
\* so does every running state after a later chunk.
C6_DocumentIdAssignedOnce ==
    AtChunkBoundary =>
        /\ (cleaned # <<>> /\ HasId(cleaned[1])) =>
               /\ HasId(prev_state)
               /\ prev_state["document_id"] = cleaned[1]["document_id"]
               /\ HasId(validated[1])
               /\ validated[1]["document_id"] = cleaned[1]["document_id"]
        /\ HasId(pre_merge) =>
               /\ HasId(prev_state)
               /\ prev_state["document_id"] = pre_merge["document_id"]

\* the retry controller has returned to the chunk loop after retries+1 failed
\* attempts
Exhausted ==
    /\ spc = "invoking" /\ rpc = "done"
    /\ Len(calls) = SESSION_RETRIES + 1
    /\ \A i \in 1..Len(calls) : Failed(calls[i])

\* C12: when the retry controller has exhausted its attempts for a chunk, the
\* step that ends the chunk leaves the running state and the results as they
\* were and puts the loop at its head, ready for the next chunk.
C12_ExhaustedChunkSkipped ==
    [][Exhausted => (prev_state' = prev_state /\ results' = results /\ spc' = "loop")]_vars

\* C12 witness: the first chunk was merged after one call, the second chunk
\* took three failed calls, and the running state is the one of the first.
C12_Witness ==
    /\ spc = "loop" /\ outcome = "failed" /\ oracle_calls = <<1, 3>>
    /\ prev_state = pre_merge /\ prev_state # PREV_STATE

\* the ways the body of the loop ends for a chunk that failed: a blank or
\* malformed chunk, an exception, an exhausted oracle, a validation failure
FailingOutcomes == {"blank", "error", "failed", "invalid"}

\* C13: a chunk that failed leaves the loop at its head, ready for the next
\* chunk, and the running state is the one from before the chunk.
C13_FailingChunkChangesNothing ==
    (spc # "invoking" /\ outcome \in FailingOutcomes) =>
        (spc \in {"loop", "returned"} /\ prev_state = pre_merge)

C23_BlankChunkSkipped ==
    (taken > 0 /\ \A i \in 1..Len(chunk_text) : IsSpace(chunk_text[i])) =>
        /\ spc # "invoking" /\ rpc = "idle"
        /\ calls = <<>> /\ sys_msgs = <<>>
        /\ oracle_calls[Len(oracle_calls)] = 0
        /\ prev_state = pre_merge

\* C23 witness: the first chunk was merged after one oracle call; the second
\* chunk is two blanks and a newline, and costs no call.
C23_Witness ==
    /\ spc = "loop" /\ taken = 2 /\ oracle_calls = <<1, 0>>
    /\ chunk_text = <<" ", " ", "\n">>
    /\ prev_state = pre_merge /\ prev_state # PREV_STATE

\* the top-level keys the schema contract requires
required_keys ==
    {"document_type", "document_title", "document_id", "issue_date",
     "deadlines", "client_organization", "client_industry", "contacts",
     "project_scope", "contract_term", "submission_method",
     "evaluation_criteria", "pricing_structure", "requirements", "keywords",
     "compliance_standards"}

\* st has exactly the required keys and its items no property the contract
\* does not define
ConformsExactly(st) ==
    /\ DOMAIN st = required_keys
    /\ \A d \in Range(st["deadlines"]) : DOMAIN d = {"date"}
    /\ \A c \in Range(st["contacts"]) :
           "name" \in DOMAIN c /\ DOMAIN c \subseteq {"name", "title", "email", "phone"}
    /\ \A c \in Range(st["evaluation_criteria"]) : DOMAIN c = {"criterion"}

\* C25: the validation gate enforces the schema contract.  A state that
\* validate_extraction_json accepts has every required top-level key
\* (document_id and project_scope among them) and no property the contract
\* does not define, at any depth.
C25_GateEnforcesContract ==
    (validated # <<>> /\ outcome = "valid") => ConformsExactly(validated[1])

\* invoke_with_retries has returned a record and the iteration merges it
MergesReply ==
    /\ spc = "invoking" /\ rpc = "done" /\ ret.data # <<>>
    /\ spc' = "loop" /\ cleaned' # <<>>

\* C28: through ensure_defaults, sanitize_llm_extraction and
\* filter_with_prev_backup, a non-empty value the oracle returns for a scalar
\* field (project_scope included) that the chunk text literally holds is
\* given to the merge and is in the running state after the iteration.
C28_EvidencedScalarReachesState ==
    [][MergesReply =>
          \A f \in Range(scalar_fields) :
              (/\ f \in DOMAIN LastParsed /\ IsStr(LastParsed[f])
               /\ PassesGate(f, LastParsed[f], chunk_text))
                  => /\ Get(ret.data[1], f) = LastParsed[f]
                     /\ Get(prev_state', f) = LastParsed[f]]_vars


\* C35: filter_with_prev_backup has no effect on its inputs.  The objects
\* the last call was given as previous state and as candidate hold what they
\* held when it was called, also after the loop has removed document_id from
\* the state the call returned.
C35_InputsUntouched ==
    heap.arg # 0 =>
        /\ heap.objs[heap.arg] = heap.arg0
        /\ heap.objs[heap.payload] = heap.payload0
        /\ heap.prev \notin {heap.arg, heap.payload}

\* a second merge has added a contact to the state the first one returned,
\* and the loop has popped document_id from the result
C35_Witness ==
    /\ Len(oracle_calls) = 2 /\ outcome \in {"valid", "invalid"}
    /\ heap.arg = 3
    /\ heap.arg0 # PREV_STATE
    /\ heap.objs[heap.prev] = prev_state
    /\ prev_state # heap.arg0
    /\ "document_id" \in DOMAIN heap.payload0
    /\ "document_id" \notin DOMAIN prev_state


\* extractor.py:75: invoke_with_retries has returned and the rest of the
\* iteration runs; the step of EndChunk, told by the positions alone
EndChunkReached == spc = "invoking" /\ rpc = "done" /\ spc' = "loop"

\* The function is sequential code and every call of the oracle returns or
\* raises: the session starts, an attempt that is due is made, a call that
\* has returned is followed by the rest of the iteration, and the function
\* returns when the loop is over.  Whether there is another chunk or another
\* document is left open: pdfs is any finite list of finite lists.
SpecSessionLive ==
    /\ SpecSession
    /\ WF_vars(StartSession)
    /\ WF_vars(spc = "invoking" /\ \E reply \in SessionReplies : Attempt(reply))
    /\ WF_vars(spc = "invoking" /\ ReturnFailure)
    /\ WF_spc(EndChunkReached)
    /\ WF_vars(ReturnState)

\* the number of merges the session has run: each makes two objects
SessionMerges == (Len(heap.objs) - 1) \div 2

\* C36: the session terminates.  extract_entities_llm returns; up to then
\* the oracle is called at most retries + 1 times for a chunk and never for
\* a blank one, at most one merge is run per chunk, and a chunk is taken
\* only when the iteration of the one before it is over.
C36_SessionTerminates ==
    /\ <>(spc = "returned")
    /\ [](/\ \A i \in 1..Len(oracle_calls) : oracle_calls[i] <= SESSION_RETRIES + 1
          /\ Len(calls) <= SESSION_RETRIES + 1
          /\ outcome = "blank" => oracle_calls[Len(oracle_calls)] = 0
          /\ Len(oracle_calls) <= taken
          /\ spc # "idle" => SessionMerges <= Len(oracle_calls))
    /\ [][/\ taken' # taken => spc = "loop" /\ Len(oracle_calls) = taken
          /\ spc = "returned" => UNCHANGED vars]_vars

\* the session has returned after two chunks: every attempt failed for the
\* first, the second was merged after one call
C36_Witness ==
    /\ spc = "returned" /\ taken = 2
    /\ oracle_calls = <<SESSION_RETRIES + 1, 1>>
    /\ SessionMerges = 1


\* the keys a hint names, in the order it names them
HintKeys(p) == SelectSeq(p.hint, LAMBDA x : x \notin {HINT_HEAD, ", ", "\n\n"})

\* the keys of s that hold null, the empty string or the empty list
EmptyKeys(s) ==
    {k \in DOMAIN s : ToString(s[k]) \in {ToString(None), ToString(<<>>)}}

OrderOfKey(k) == CHOOSE i \in 1..Len(key_order) : key_order[i] = k

\* prompt p embeds state s, and its hint names the empty keys of s, each
\* once, in key order; there is no hint when s has no empty key
PromptFor(p, s) ==
    /\ p.prev_state = s
    /\ \E ks \in {HintKeys(p)} :
           /\ {ks[i] : i \in 1..Len(ks)} = EmptyKeys(s)
           /\ \A i, j \in 1..Len(ks) :
                  i < j => OrderOfKey(ks[i]) < OrderOfKey(ks[j])
           /\ IF EmptyKeys(s) = {} THEN p.hint = <<>>
              ELSE /\ Head(p.hint) = HINT_HEAD
                   /\ Len(p.hint) = 2 * Len(ks) + 1

\* a state without an empty field
StateFull ==
    [k \in DOMAIN PREV_STATE |->
        IF k \in {list_fields[i] : i \in 1..Len(list_fields)}
        THEN <<ACME>> ELSE ACME]

-----------------------------------------------------------------------------
(* The sanitizer (SpecSanitize)                                             *)

\* a Python list: a sequence, which None is not (the values are compared as
\* text, since the items of a list may be records)
IsSequence(v) == ToString(v) # ToString(None) /\ DOMAIN v = 1..Len(v)

\* sanitize_llm_extraction has returned
Sanitized == sane # <<>>

\* C24: list fields are never null.  Whatever the raw input holds for a list
\* field (no key, null, a scalar, a list), the record sanitize_llm_extraction
\* returns has every schema field and holds a sequence for each of the six
\* list fields; and every state a merge returns holds a sequence for each of
\* the six list fields, also when the previous state lacks some of them.
C24_ListFieldsNeverNull ==
    /\ Sanitized =>
           /\ DOMAIN BASE_DEFAULTS(UUID1) \cup DOMAIN defaults_none
                  \subseteq DOMAIN sane[1]
           /\ \A f \in _LIST_FIELDS : IsSequence(sane[1][f])
    /\ Merged =>
           \A f \in _LIST_FIELDS : f \in DOMAIN state /\ IsSequence(state[f])

\* a null keywords value was sanitized to the empty list and merged into a
\* state that had no deadlines key
C24_Witness ==
    /\ raw = OneField("keywords", RawNull)
    /\ Sanitized /\ sane[1]["keywords"] = <<>>
    /\ merges = 1 /\ start = StateAcme /\ "deadlines" \notin DOMAIN start
    /\ state["deadlines"] = <<>> /\ state["keywords"] = <<>>



\* the dedup key of a sanitized contact: the email if present, else the
\* lowercased name and the digits of the phone if both are present, else the
\* lowercased name
ContactDedupKey(c) ==
    IF c["email"] # <<>> THEN <<"e", c["email"]>>
    ELSE IF c["name"] # <<>> /\ c["phone"] # <<>>
         THEN <<"np", Lower(c["name"]), DigitsOnly(c["phone"])>>
    ELSE <<"n", Lower(c["name"])>>

\* the raw contacts of the input, one by one
RawContactItems ==
    IF "contacts" \notin DOMAIN raw \/ raw["contacts"].kind = "null" THEN <<>>
    ELSE IF raw["contacts"].kind = "list" THEN raw["contacts"].items
    ELSE <<raw["contacts"].v>>

\* the raw contacts that are not empty once coerced, in input order
CoercedContacts ==
    LET all == [i \in 1..Len(RawContactItems) |-> _coerce_one(RawContactItems[i])]
    IN  Filter(all, {i \in 1..Len(all) : all[i] # <<>>}, 1)

\* C26: sanitizer contact dedup.  The contacts _norm_contacts returns hold no
\* two entries with the same key (email, else lowercased name with phone
\* digits, else lowercased name); they are the first raw contact of every
\* key, in input order.
C26_SanitizerContactDedup ==
    Sanitized =>
        LET out == sane[1]["contacts"]
            cs  == CoercedContacts
        IN  /\ \A i, j \in 1..Len(out) :
                   ContactDedupKey(out[i]) = ContactDedupKey(out[j]) => i = j
            /\ out = Filter(cs, {i \in 1..Len(cs) :
                                    \A j \in 1..(i - 1) :
                                        ContactDedupKey(cs[j]) # ContactDedupKey(cs[i])}, 1)


\* the fields of the schema model
schema_keys ==
    {"document_type", "document_title", "document_id", "issue_date",
     "deadlines", "client_organization", "client_industry", "contacts",
     "contract_term", "submission_method", "evaluation_criteria",
     "pricing_structure", "requirements", "keywords", "compliance_standards"}

\* C32: default filling.  The record ensure_defaults returns has exactly the
\* keys of the schema model; a key the parsed object lacks holds the schema
\* default, a key the schema does not know is dropped, a list field whose
\* value is null or not a list is the empty list, and every other value is
\* the one of the parsed object.
C32_DefaultFilling ==
    filled # <<>> =>
        /\ DOMAIN filled[1] = schema_keys
        /\ \A k \in schema_keys :
               filled[1][k] =
                   IF k \in _LIST_FIELDS
                   THEN (IF k \in DOMAIN raw /\ raw[k].kind = "list"
                         THEN raw[k] ELSE RawList(<<>>))
                   ELSE IF k \in DOMAIN raw THEN raw[k]
                   ELSE IF k = "document_id" THEN UUID1 ELSE None

\* an object with a numeric title, its own identifier, project_scope and an
\* unknown key: the title and the identifier are kept, the two keys dropped
C32_Witness ==
    /\ raw = RawOdd /\ filled # <<>>
    /\ filled[1]["document_title"] = INT_5 /\ filled[1]["document_id"] = UUID2
    /\ filled[1]["keywords"] = RawList(<<>>)
    /\ "project_scope" \notin DOMAIN filled[1]
    /\ "technologies" \notin DOMAIN filled[1]


\* name, email and phone of a raw contact after normalisation
NormalName(v) ==
    IF _is_missing(GetOrEmpty(v, "name")) THEN <<>>
    ELSE _clean_text(GetOrEmpty(v, "name"))
NormalEmail(v) == _norm_email(GetOrEmpty(v, "email"))
NormalPhone(v) == _norm_phone(GetOrEmpty(v, "phone"))

AllEmpty(v) == NormalName(v) = <<>> /\ NormalEmail(v) = <<>> /\ NormalPhone(v) = <<>>

\* the sanitized contacts that raw contact v may have become: the email and
\* the phone are its normalised ones (a name of the form "Name <email>"
\* gives the email when there is none)
TracesOf(v) ==
    {i \in 1..Len(sane[1]["contacts"]) :
        \E o \in {sane[1]["contacts"][i]} :
            /\ o["phone"] = NormalPhone(v)
            /\ IF NormalEmail(v) # <<>> THEN o["email"] = NormalEmail(v)
               ELSE o["name"] = NormalName(v) \/ o["email"] = Lower(ParseAddr(NormalName(v)))}

====
